---- MODULE Spec2Model ----
(***************************************************************************)
(* A model of the GL(n) crystal library of joelgibson/SymmetricAlgebra:    *)
(* the lattice-word recogniser, the crystal edge operator f_i, the         *)
(* depth-first traversal visitGLnCrystal with its two clients expandInGL   *)
(* and tensorPartitions, and the hook-length dimension formula.            *)
(*                                                                         *)
(* Arrays are sequences.  The source indexes arrays from 0, sequences are  *)
(* indexed from 1: every POSITION kept in the state (mutStack entries, the *)
(* value returned by crystal_f) is the source's 0-based position, and the  *)
(* letter at position j of v is v[j + 1].                                  *)
(***************************************************************************)
EXTENDS Integers, Sequences, FiniteSets, Bags, TLC

\* ------------------------------------------------------------------------
\* Bounds of the model.
\* ------------------------------------------------------------------------
MaxN == 3          \* GL(n) is explored for n in 0..MaxN
MaxLen == 4        \* start words have at most MaxLen letters
MaxLetter == 3     \* letters of start words are drawn from 1..MaxLetter
MaxRows == 3       \* operand lists of tensorPartitions have at most MaxRows entries
MaxPart == 2       \* entries of operand lists are drawn from 1..MaxPart
MaxExpand == 6     \* cursor values from MaxExpand on are folded (see cursorAfter)

MaxMult == 1       \* multiplicities of the client are drawn from -1..MaxMult
MaxPow == 2        \* algebraPow is called with an exponent in 0..MaxPow
MaxStr == 3        \* the parser is given every string of at most MaxStr characters
MaxEntries == 3    \* the lists given to algebraNormalise have at most MaxEntries pairs
MaxTwoLen == 2     \* two calls are run on start vertices of at most MaxTwoLen letters

Words == UNION {[1..k -> 1..MaxLetter] : k \in 0..MaxLen}
Lists == UNION {[1..k -> 1..MaxPart] : k \in 0..MaxRows}
\* The array literals of the client of the algebra layer.
Literals == {<<>>, <<1>>, <<1, 1>>, <<2, 1>>, <<1, 1, 1>>, <<1, 2>>}

\* ------------------------------------------------------------------------
\* util.ts
\* ------------------------------------------------------------------------
RECURSIVE compareListsFrom(_, _, _)
compareListsFrom(a, b, i) ==
    IF i <= Len(a) /\ i <= Len(b)
    THEN IF a[i] < b[i] THEN -1
         ELSE IF a[i] > b[i] THEN 1
         ELSE compareListsFrom(a, b, i + 1)
    ELSE IF i = Len(a) + 1 /\ i <= Len(b) THEN -1
    ELSE IF i <= Len(a) /\ i = Len(b) + 1 THEN 1
    ELSE 0

compareLists(a, b) == compareListsFrom(a, b, 1)

\* ------------------------------------------------------------------------
\* crystal.ts : partitions and lattice words
\* ------------------------------------------------------------------------
isPartition(nums) ==
    /\ \A i \in 2..Len(nums) : ~(nums[i - 1] < nums[i])
    /\ ~(Len(nums) > 0 /\ nums[Len(nums)] <= 0)

\* The "null" result of latticeWordToMaybePartition.
Null == [ok |-> FALSE, part |-> <<>>]
Just(p) == [ok |-> TRUE, part |-> p]

\* extendByLetter letting a row grow to one cell more than the row above.
extendByLetterWeak(partition, num) ==
    IF num - 1 = Len(partition) THEN Just(Append(partition, 1))
    ELSE IF num = 1 THEN Just([partition EXCEPT ![1] = @ + 1])
    ELSE IF num - 1 > Len(partition) THEN Null
    ELSE IF num >= 2 /\ partition[num - 1] >= partition[num]
         THEN Just([partition EXCEPT ![num] = @ + 1])
         ELSE Null

\* One iteration of the loop of latticeWordToMaybePartition on the letter
\* num: the partition after the letter, or Null.  A letter num <= 0 reaches
\* the last branch, where partition[num - 2] is undefined and the comparison
\* with it is false.
extendByLetter(partition, num) ==
    IF num - 1 = Len(partition) THEN Just(Append(partition, 1))
    ELSE IF num = 1 THEN Just([partition EXCEPT ![1] = @ + 1])
    ELSE IF num - 1 > Len(partition) THEN Null
    ELSE IF num >= 2 /\ partition[num - 1] > partition[num]
         THEN Just([partition EXCEPT ![num] = @ + 1])
         ELSE Null

RECURSIVE latticeWordLoop(_, _, _)
latticeWordLoop(partition, word, i) ==
    IF i > Len(word) THEN Just(partition)
    ELSE LET r == extendByLetter(partition, word[i])
         IN  IF r.ok THEN latticeWordLoop(r.part, word, i + 1) ELSE Null

latticeWordToMaybePartition(sofar, word) == latticeWordLoop(sofar, word, 1)

isLatticeWord(v) == latticeWordToMaybePartition(<<>>, v).ok

\* hwToPartition crashes on a non-lattice word; it is only applied to
\* lattice words here.
hwToPartition(v) == latticeWordToMaybePartition(<<>>, v).part

\* ------------------------------------------------------------------------
\* crystal.ts : the edge operator f_i
\* ------------------------------------------------------------------------
\* The two-counter scan without the reset of a negative size to 0.
RECURSIVE crystal_f_scanNoReset(_, _, _, _)
crystal_f_scanNoReset(i, v, j, st) ==
    IF j >= Len(v) THEN st
    ELSE IF v[j + 1] = i
         THEN IF st[2] <= 0
              THEN crystal_f_scanNoReset(i, v, j + 1, <<j, st[2] + 1>>)
              ELSE crystal_f_scanNoReset(i, v, j + 1, <<st[1], st[2] + 1>>)
    ELSE IF v[j + 1] = i + 1
         THEN crystal_f_scanNoReset(i, v, j + 1, <<st[1], st[2] - 1>>)
    ELSE crystal_f_scanNoReset(i, v, j + 1, st)

\* The two-counter scan: st = <<bottom, size>> before letter j (0-based).
RECURSIVE crystal_f_scan(_, _, _, _)
crystal_f_scan(i, v, j, st) ==
    IF j >= Len(v) THEN st
    ELSE IF v[j + 1] = i
         THEN IF st[2] <= 0
              THEN crystal_f_scan(i, v, j + 1, <<j, 1>>)
              ELSE crystal_f_scan(i, v, j + 1, <<st[1], st[2] + 1>>)
    ELSE IF v[j + 1] = i + 1
         THEN crystal_f_scan(i, v, j + 1, <<st[1], st[2] - 1>>)
    ELSE crystal_f_scan(i, v, j + 1, st)

crystal_f(i, v) ==
    LET st == crystal_f_scan(i, v, 0, <<0, 0>>)
    IN  IF st[2] <= 0 THEN -1 ELSE st[1]

\* The number of letters taken for the height.
vertexHeightAsLength(v) == Len(v)

vertexHeight(v) ==
    IF Len(v) = 0 THEN 0
    ELSE LET m == CHOOSE x \in {v[k] : k \in 1..Len(v)} :
                      \A y \in {v[k] : k \in 1..Len(v)} : y <= x
         IN  IF m > 0 THEN m ELSE 0

\* ------------------------------------------------------------------------
\* crystal.ts : hook lengths, dimensions, partitionToHw
\* ------------------------------------------------------------------------
\* i, j are 0-based (row, column) as in the source.
RECURSIVE hookLengthK(_, _, _, _)
hookLengthK(part, i, j, k) ==
    IF i + k + 1 < Len(part) /\ part[i + k + 2] > j
    THEN hookLengthK(part, i, j, k + 1)
    ELSE k

\* The hook length without its leg (the rows below are not counted).
hookLengthNoLeg(part, i, j) == part[i + 1] - j

hookLength(part, i, j) == hookLengthK(part, i, j, 0) + part[i + 1] - j

\* The cells of a partition in the order the two nested loops of
\* dimensionInGL run over them: <<i, j>> with i the 0-based row and j the
\* 1-based column.
RECURSIVE rowCells(_, _, _)
rowCells(part, i, j) ==
    IF j > part[i + 1] THEN <<>> ELSE <<(<<i, j>>)>> \o rowCells(part, i, j + 1)

RECURSIVE cellsFrom(_, _)
cellsFrom(part, i) ==
    IF i >= Len(part) THEN <<>> ELSE rowCells(part, i, 1) \o cellsFrom(part, i + 1)

\* The running product of dimensionInGL as an exact fraction <<num, den>>,
\* den > 0: product *= (n + j - (i + 1)) / hookLength(partition, i, j - 1).
RECURSIVE dimensionProduct(_, _, _, _)
dimensionProduct(n, part, cells, prod) ==
    IF cells = <<>> THEN prod
    ELSE LET i == Head(cells)[1]
             j == Head(cells)[2]
         IN  dimensionProduct(n, part, Tail(cells),
                 <<prod[1] * (n + j - (i + 1)), prod[2] * hookLength(part, i, j - 1)>>)

\* Math.round of the fraction num/den (den > 0): the nearest integer, a tie
\* going up.
mathRound(q) == (2 * q[1] + q[2]) \div (2 * q[2])

dimensionInGL(n, partition) ==
    mathRound(dimensionProduct(n, partition, cellsFrom(partition, 0), <<1, 1>>))

\* partitionToHw writing the 0-based row index i for row i.
RECURSIVE partitionToHwFromZero(_, _)
partitionToHwFromZero(part, i) ==
    IF i >= Len(part) THEN <<>>
    ELSE [j \in 1..part[i + 1] |-> i] \o partitionToHwFromZero(part, i + 1)

RECURSIVE partitionToHwFrom(_, _)
partitionToHwFrom(part, i) ==
    IF i >= Len(part) THEN <<>>
    ELSE [j \in 1..part[i + 1] |-> i + 1] \o partitionToHwFrom(part, i + 1)

partitionToHw(part) == partitionToHwFrom(part, 0)

\* ------------------------------------------------------------------------
\* The key of the "seen" object: Array.prototype.toString joins the letters
\* with commas.
\* ------------------------------------------------------------------------
RECURSIVE joinFrom(_, _, _)
joinFrom(v, k, sep) ==
    IF k > Len(v) THEN ""
    ELSE IF k = Len(v) THEN ToString(v[k])
    ELSE ToString(v[k]) \o sep \o joinFrom(v, k + 1, sep)

toString(v) == joinFrom(v, 1, ",")

\* ------------------------------------------------------------------------
\* crystal.ts, the earlier definitions kept in the file: the stack-based
\* f_i and the breadth-first expandInGL.
\* ------------------------------------------------------------------------
\* The stack after the scan of letters j.. of v; pop() on an empty array
\* leaves it empty.
RECURSIVE crystal_f_stackScan(_, _, _, _)
crystal_f_stackScan(i, v, j, stack) ==
    IF j >= Len(v) THEN stack
    ELSE IF v[j + 1] = i
         THEN crystal_f_stackScan(i, v, j + 1, Append(stack, j))
    ELSE IF v[j + 1] = i + 1
         THEN crystal_f_stackScan(i, v, j + 1,
                  IF stack = <<>> THEN stack ELSE SubSeq(stack, 1, Len(stack) - 1))
    ELSE crystal_f_stackScan(i, v, j + 1, stack)

\* The earlier crystal_f: null, or the new vertex.
crystal_f_stack(i, v) ==
    LET stack == crystal_f_stackScan(i, v, 0, <<>>)
    IN  IF Len(stack) = 0 THEN [ok |-> FALSE, vert |-> <<>>]
        ELSE [ok |-> TRUE, vert |-> [v EXCEPT ![stack[1] + 1] = i + 1]]

\* NumsSet keys its elements by nums.join("|").
numsKey(nums) == joinFrom(nums, 1, "|")

\* The two nested loops over one frontier: st = [seen, new_frontier] before
\* trying f_i on frontier[j] (j is 0-based).
RECURSIVE bfsFrontier(_, _, _, _, _)
bfsFrontier(nn, frontier, j, i, st) ==
    IF j >= Len(frontier) THEN st
    ELSE IF i >= nn THEN bfsFrontier(nn, frontier, j + 1, 1, st)
    ELSE LET r == crystal_f_stack(i, frontier[j + 1])
         IN  IF r.ok /\ numsKey(r.vert) \notin st.seen
             THEN bfsFrontier(nn, frontier, j, i + 1,
                      [seen |-> st.seen \cup {numsKey(r.vert)},
                       new_frontier |-> Append(st.new_frontier, r.vert)])
             ELSE bfsFrontier(nn, frontier, j, i + 1, st)

RECURSIVE bfsLoop(_, _, _, _)
bfsLoop(nn, frontier, crystal, seenKeys) ==
    IF Len(frontier) = 0 THEN crystal
    ELSE LET st == bfsFrontier(nn, frontier, 0, 1,
                       [seen |-> seenKeys, new_frontier |-> <<>>])
         IN  bfsLoop(nn, st.new_frontier, crystal \o st.new_frontier, st.seen)

\* The breadth-first expandInGL (its two assertions hold where it is used).
expandInGL_bfs(nn, v) == bfsLoop(nn, <<v>>, <<v>>, {numsKey(v)})

\* The letter at 0-based position j changed by d.
Bump(v, j, d) == [v EXCEPT ![j + 1] = @ + d]

\* ------------------------------------------------------------------------
\* visitGLnCrystal and tensorPartitions run to completion, for the callers
\* in the algebra layer.
\* ------------------------------------------------------------------------
\* One iteration of the loop of visitGLnCrystal on the DFS state d; done is
\* set by the break, and a finished state is left as it is.
visitStep(nn, d) ==
    IF d.done THEN d
    ELSE IF d.toExpand = nn
    THEN IF Len(d.mutStack) = 0 THEN [d EXCEPT !.done = TRUE]
         ELSE [d EXCEPT !.mutVert = Bump(@, d.mutStack[Len(d.mutStack)], -1),
                        !.mutStack = SubSeq(@, 1, Len(@) - 1),
                        !.toExpand = d.expStack[Len(d.expStack)],
                        !.expStack = SubSeq(@, 1, Len(@) - 1)]
    ELSE LET maybeIdx == crystal_f(d.toExpand, d.mutVert)
             moved == Bump(d.mutVert, maybeIdx, 1)
         IN  IF maybeIdx < 0 THEN [d EXCEPT !.toExpand = @ + 1]
             ELSE IF toString(moved) \in d.seen THEN [d EXCEPT !.toExpand = @ + 1]
             ELSE [d EXCEPT !.mutVert = moved,
                            !.seen = @ \cup {toString(moved)},
                            !.visits = Append(@, moved),
                            !.mutStack = Append(@, maybeIdx),
                            !.expStack = Append(@, d.toExpand + 1),
                            !.toExpand = 1]

\* 2^k iterations of the loop, stopping at the break.
RECURSIVE visitSteps(_, _, _)
visitSteps(nn, d, k) ==
    IF k = 0 THEN visitStep(nn, d)
    ELSE LET e == visitSteps(nn, d, k - 1)
         IN  IF e.done THEN e ELSE visitSteps(nn, e, k - 1)

\* The loop run to its break, 2^k, 2^(k+1), ... iterations at a time: the
\* sequence of visited vertices.  It is only run with nn >= 1.
RECURSIVE visitLoop(_, _, _)
visitLoop(nn, d, k) ==
    LET e == visitSteps(nn, d, k)
    IN  IF e.done THEN e.visits ELSE visitLoop(nn, e, k + 1)

\* The vertices visitGLnCrystal(nn, v, visit) visits, in order; ok is FALSE
\* when one of its two assertions fails.
visitGLnCrystal(nn, v) ==
    IF isLatticeWord(v) /\ vertexHeight(v) <= nn
    THEN [ok |-> TRUE,
          visits |-> visitLoop(nn, [mutVert |-> v, mutStack |-> <<>>, expStack |-> <<>>,
                                    toExpand |-> 1, seen |-> {toString(v)},
                                    visits |-> <<v>>, done |-> FALSE], 0)]
    ELSE [ok |-> FALSE, visits |-> <<>>]

\* The visitor with latticeWordToMaybePartition([], v): the extension starts
\* from the empty partition in place of partLeft.
collectPartitionsFromEmpty(left, vs) ==
    LET ms == [k \in 1..Len(vs) |-> latticeWordToMaybePartition(<<>>, vs[k])]
        oks == SelectSeq(ms, LAMBDA m : m.ok)
    IN  [k \in 1..Len(oks) |-> oks[k].part]

\* The visitor of tensorPartitions run over a sequence of visited vertices:
\* the non-null extensions of left, in order.
collectPartitions(left, vs) ==
    LET ms == [k \in 1..Len(vs) |-> latticeWordToMaybePartition(left, vs[k])]
        oks == SelectSeq(ms, LAMBDA m : m.ok)
    IN  [k \in 1..Len(oks) |-> oks[k].part]

\* tensorPartitions(nn, left, right): the list it returns; ok is FALSE when
\* an assertion fails.
tensorPartitions(nn, left, right) ==
    IF ~(nn >= 2 /\ isPartition(left) /\ isPartition(right))
    THEN [ok |-> FALSE, parts |-> <<>>]
    ELSE LET swap == dimensionInGL(nn, left) < dimensionInGL(nn, right)
             partL == IF swap THEN right ELSE left
             partR == IF swap THEN left ELSE right
             run == visitGLnCrystal(nn, partitionToHw(partR))
         IN  [ok |-> run.ok, parts |-> collectPartitions(partL, run.visits)]

\* The set of elements of a sequence.
Range(s) == {s[k] : k \in 1..Len(s)}

\* The earlier version of the tensor product (crystal.ts 154-162, 214-226):
\* the highest-weight elements v.concat(crystal[i]) among the vertices of an
\* expanded crystal.
tensorHwWithCrystal(v, crystal) ==
    SelectSeq([i \in 1..Len(crystal) |-> v \o crystal[i]], isLatticeWord)

\* The earlier tensorPartitions, which expands the crystal of the right
\* operand breadth-first and converts each new highest weight; ok is FALSE
\* when an assertion fails.
tensorPartitions_concat(nn, part1, part2) ==
    IF ~(nn >= 2 /\ isPartition(part1) /\ isPartition(part2))
    THEN [ok |-> FALSE, parts |-> <<>>]
    ELSE LET swap == dimensionInGL(nn, part1) < dimensionInGL(nn, part2)
             p1 == IF swap THEN part2 ELSE part1
             p2 == IF swap THEN part1 ELSE part2
             v2 == partitionToHw(p2)
         IN  IF ~(isLatticeWord(v2) /\ vertexHeight(v2) <= nn)
             THEN [ok |-> FALSE, parts |-> <<>>]
             ELSE LET newHws == tensorHwWithCrystal(partitionToHw(p1),
                                                    expandInGL_bfs(nn, v2))
                  IN  [ok |-> TRUE,
                       parts |-> [k \in 1..Len(newHws) |-> hwToPartition(newHws[k])]]

\* ------------------------------------------------------------------------
\* The algebra layer (crystal.ts from line 496) on a heap.
\*
\* A heap h is a sequence of objects and the address of an object is its
\* index, 0 being null.  A number array is a "nums" object, an element
\* {part, mult} of a Linear an "entry" object holding the ADDRESS of its
\* partition array, a Linear a "linear" object holding the addresses of its
\* entries, and a Partition[] a "parts" object holding the addresses of its
\* arrays.  A function returns [ok, h, r]: ok is FALSE when an assertion
\* fails, h is the heap after the call and r the address returned.
\* Temporaries that no returned object refers to (the sorted copy and the
\* product list of algebraNormalise and algebraMul, the list returned by
\* tensorPartitions inside algebraMul) are not allocated.
\* ------------------------------------------------------------------------
NumsObj(e) == [kind |-> "nums", elems |-> e, part |-> 0, mult |-> 0]
EntryObj(pa, m) == [kind |-> "entry", elems |-> <<>>, part |-> pa, mult |-> m]
LinearObj(es) == [kind |-> "linear", elems |-> es, part |-> 0, mult |-> 0]
PartsObj(es) == [kind |-> "parts", elems |-> es, part |-> 0, mult |-> 0]

Crash(h) == [ok |-> FALSE, h |-> h, r |-> 0]

\* The elements of the Linear at address lin as {part, mult} pairs, part
\* being the address of the partition array.
entriesOf(h, lin) ==
    [k \in 1..Len(h[lin].elems) |->
        [part |-> h[h[lin].elems[k]].part, mult |-> h[h[lin].elems[k]].mult]]

\* A new array holding new {part, mult} objects, one per pair of es.
newLinear(h, es) ==
    LET a == Len(h) + 1
    IN  [ok |-> TRUE,
         h |-> (h \o <<LinearObj([k \in 1..Len(es) |-> a + k])>>)
                  \o [k \in 1..Len(es) |-> EntryObj(es[k].part, es[k].mult)],
         r |-> a]

\* algebraUnit: [{part: [], mult: num}].
algebraUnit(h, num) ==
    LET a == Len(h) + 1
    IN  [ok |-> TRUE,
         h |-> h \o <<NumsObj(<<>>), EntryObj(a, num), LinearObj(<<a + 1>>)>>,
         r |-> a + 2]

\* algebraPart: [{part: part, mult: 1}].
algebraPart(h, part) ==
    IF ~isPartition(h[part].elems) THEN Crash(h)
    ELSE LET a == Len(h) + 1
         IN  [ok |-> TRUE,
              h |-> h \o <<EntryObj(part, 1), LinearObj(<<a>>)>>,
              r |-> a + 1]

\* lin.slice(0).sort(...) with the comparator -compareLists on the parts.
\* Array.prototype.sort is stable: the pairs come in descending order of
\* their parts, pairs of equal parts in the order they had in es.  The pair
\* es[i] goes to the place after the pairs that come before it.
\* The comparator without its minus sign: ascending order.
sortedBeforeAscending(h, es, j, i) ==
    LET c == compareLists(h[es[j].part].elems, h[es[i].part].elems)
    IN  c < 0 \/ (c = 0 /\ j < i)

sortedBefore(h, es, j, i) ==
    LET c == compareLists(h[es[j].part].elems, h[es[i].part].elems)
    IN  c > 0 \/ (c = 0 /\ j < i)

sortEntries(h, es) ==
    LET place == [i \in 1..Len(es) |->
                     1 + Cardinality({j \in 1..Len(es) : sortedBefore(h, es, j, i)})]
    IN  [p \in 1..Len(es) |-> es[CHOOSE i \in 1..Len(es) : place[i] = p]]

\* The loop of algebraNormalise without result.pop(): a sum of 0 is stored
\* in the last pair.
RECURSIVE normaliseLoopNoPop(_, _, _)
normaliseLoopNoPop(h, sorted, res) ==
    IF sorted = <<>> THEN res
    ELSE LET e == Head(sorted)
             last == res[Len(res)]
         IN  IF e.mult = 0 THEN normaliseLoopNoPop(h, Tail(sorted), res)
             ELSE IF Len(res) = 0
                     \/ compareLists(h[last.part].elems, h[e.part].elems) # 0
                  THEN normaliseLoopNoPop(h, Tail(sorted),
                           Append(res, [part |-> e.part, mult |-> e.mult]))
             ELSE normaliseLoopNoPop(h, Tail(sorted),
                      [res EXCEPT ![Len(res)].mult = last.mult + e.mult])

\* The loop of algebraNormalise over the sorted pairs.
RECURSIVE normaliseLoop(_, _, _)
normaliseLoop(h, sorted, res) ==
    IF sorted = <<>> THEN res
    ELSE LET e == Head(sorted)
             last == res[Len(res)]
         IN  IF e.mult = 0 THEN normaliseLoop(h, Tail(sorted), res)
             ELSE IF Len(res) = 0
                     \/ compareLists(h[last.part].elems, h[e.part].elems) # 0
                  THEN normaliseLoop(h, Tail(sorted),
                           Append(res, [part |-> e.part, mult |-> e.mult]))
             ELSE LET newMult == last.mult + e.mult
                  IN  IF newMult = 0
                      THEN normaliseLoop(h, Tail(sorted), SubSeq(res, 1, Len(res) - 1))
                      ELSE normaliseLoop(h, Tail(sorted),
                               [res EXCEPT ![Len(res)].mult = newMult])

normaliseEntries(h, es) == normaliseLoop(h, sortEntries(h, es), <<>>)

algebraNormalise(h, lin) == newLinear(h, normaliseEntries(h, entriesOf(h, lin)))

\* algebraAdd(...lins): the concatenation of the operands, normalised.
RECURSIVE concatEntries(_, _)
concatEntries(h, lins) ==
    IF lins = <<>> THEN <<>>
    ELSE entriesOf(h, Head(lins)) \o concatEntries(h, Tail(lins))

algebraAdd(h, lins) == newLinear(h, normaliseEntries(h, concatEntries(h, lins)))

\* AlgebraType
Sym == [algebra |-> "sym", n |-> 0]
GL(nn) == [algebra |-> "gl", n |-> nn]

\* restrict with a strict comparison: partitions of exactly n rows are dropped.
restrictStrict(h, t, lin) ==
    IF t.algebra = "gl"
    THEN LET restricted == SelectSeq(h[lin].elems,
                               LAMBDA e : Len(h[h[e].part].elems) < t.n)
         IN  IF Len(restricted) = 0 THEN algebraUnit(h, 0)
             ELSE [ok |-> TRUE, h |-> Append(h, LinearObj(restricted)), r |-> Len(h) + 1]
    ELSE [ok |-> TRUE, h |-> h, r |-> lin]

restrict(h, t, lin) ==
    IF t.algebra = "gl"
    THEN LET restricted == SelectSeq(h[lin].elems,
                               LAMBDA e : Len(h[h[e].part].elems) <= t.n)
         IN  IF Len(restricted) = 0 THEN algebraUnit(h, 0)
             ELSE [ok |-> TRUE, h |-> Append(h, LinearObj(restricted)), r |-> Len(h) + 1]
    ELSE [ok |-> TRUE, h |-> h, r |-> lin]

\* tensorIn taking the longer operand for the sum of the lengths.
tensorInLonger(t, part1, part2) ==
    IF t.algebra = "gl" THEN t.n
    ELSE IF Len(part1) > Len(part2) THEN Len(part1) ELSE Len(part2)

\* tensorIn that takes the sum of the lengths in GL(n) as well.
tensorInSum(t, part1, part2) == Len(part1) + Len(part2)

tensorIn(t, part1, part2) ==
    IF t.algebra = "gl" THEN t.n ELSE Len(part1) + Len(part2)

\* The innermost loop of algebraMul (lines 584-585): the partitions tp
\* returned by tensorPartitions are pushed with multiplicity mult; a failed
\* assertion of tensorPartitions ends the product.
pushTensor(st, tp, mult) ==
    IF ~tp.ok THEN [st EXCEPT !.ok = FALSE]
    ELSE [ok |-> TRUE,
          h |-> st.h \o [k \in 1..Len(tp.parts) |-> NumsObj(tp.parts[k])],
          es |-> st.es \o [k \in 1..Len(tp.parts) |->
                              [part |-> Len(st.h) + k, mult |-> mult]]]

\* The two nested loops of algebraMul over the pairs es1 (from index a) and
\* es2 (from index b): st = [ok, h, es], es the pairs pushed to product.
RECURSIVE productLoop(_, _, _, _, _, _)
productLoop(t, es1, es2, a, b, st) ==
    IF ~st.ok \/ a > Len(es1) THEN st
    ELSE IF b > Len(es2) THEN productLoop(t, es1, es2, a + 1, 1, st)
    ELSE LET part1 == st.h[es1[a].part].elems
             part2 == st.h[es2[b].part].elems
             mult == es1[a].mult * es2[b].mult
         IN  productLoop(t, es1, es2, a, b + 1,
                 IF Len(part1) = 0
                 THEN [st EXCEPT !.es = Append(@, [part |-> es2[b].part, mult |-> mult])]
                 ELSE IF Len(part2) = 0
                 THEN [st EXCEPT !.es = Append(@, [part |-> es1[a].part, mult |-> mult])]
                 ELSE pushTensor(st, tensorPartitions(tensorIn(t, part1, part2), part1, part2),
                                 mult))

\* The outer loop of algebraMul from operand i, sofar being an address:
\* mulProduct continues with the product list prod of one iteration and
\* mulNormalised with its normal form nrm.
RECURSIVE mulLoop(_, _, _, _, _)
mulNormalised(nrm, t, lins, i) == mulLoop(nrm.h, t, lins, i + 1, nrm.r)

mulProduct(prod, h, t, lins, i) ==
    IF ~prod.ok THEN Crash(h)
    ELSE mulNormalised(newLinear(prod.h, normaliseEntries(prod.h, prod.es)), t, lins, i)

mulLoop(h, t, lins, i, sofar) ==
    IF i > Len(lins) THEN [ok |-> TRUE, h |-> h, r |-> sofar]
    ELSE mulProduct(productLoop(t, entriesOf(h, sofar), entriesOf(h, lins[i]), 1, 1,
                                [ok |-> TRUE, h |-> h, es |-> <<>>]),
                    h, t, lins, i)

algebraMul(h, t, lins) ==
    IF Len(lins) = 0 THEN algebraUnit(h, 1)
    ELSE mulLoop(h, t, lins, 2, lins[1])

\* algebraPow: pow >= 0 (Array(pow) throws on a negative pow).
algebraPow(h, t, lin, pow) ==
    IF pow = 0 THEN algebraUnit(h, 1)
    ELSE algebraMul(h, t, [k \in 1..pow |-> lin])

\* latticeWordToMaybePartition without the copy of line 260 (sofar.slice()):
\* the letters are added to the array sofar itself, which is returned.
latticeWordToMaybePartition_hNoSlice(h, sofar, word) ==
    LET m == latticeWordToMaybePartition(h[sofar].elems, h[word].elems)
    IN  IF m.ok THEN [ok |-> TRUE, h |-> [h EXCEPT ![sofar] = NumsObj(m.part)], r |-> sofar]
        ELSE [ok |-> TRUE, h |-> h, r |-> 0]

\* The crystal functions that return partitions, on the heap:
\* latticeWordToMaybePartition returns the copy sofar.slice(0) or null.
latticeWordToMaybePartition_h(h, sofar, word) ==
    LET m == latticeWordToMaybePartition(h[sofar].elems, h[word].elems)
    IN  IF m.ok THEN [ok |-> TRUE, h |-> Append(h, NumsObj(m.part)), r |-> Len(h) + 1]
        ELSE [ok |-> TRUE, h |-> h, r |-> 0]

hwToPartition_h(h, v) ==
    LET m == latticeWordToMaybePartition(<<>>, h[v].elems)
    IN  IF m.ok THEN [ok |-> TRUE, h |-> Append(h, NumsObj(m.part)), r |-> Len(h) + 1]
        ELSE Crash(h)

\* tensorPartitions returns its array partitions of the copies pushed by
\* the visitor.
tensorPartitions_h(h, nn, left, right) ==
    LET tp == tensorPartitions(nn, h[left].elems, h[right].elems)
        a == Len(h) + 1
    IN  IF ~tp.ok THEN Crash(h)
        ELSE [ok |-> TRUE,
              h |-> (h \o <<PartsObj([k \in 1..Len(tp.parts) |-> a + k])>>)
                       \o [k \in 1..Len(tp.parts) |-> NumsObj(tp.parts[k])],
              r |-> a]

\* The addresses an object holds, the storage reachable from a set of
\* addresses, and the value of an address (arrays and objects by content).
Refs(h, a) ==
    IF h[a].kind = "entry" THEN {h[a].part}
    ELSE IF h[a].kind = "nums" THEN {}
    ELSE Range(h[a].elems)

RECURSIVE Reach(_, _)
Reach(h, S) ==
    LET T == S \cup UNION {Refs(h, a) : a \in S}
    IN  IF T = S THEN S ELSE Reach(h, T)

RECURSIVE DeepValue(_, _)
DeepValue(h, a) ==
    IF a = 0 THEN <<"null">>
    ELSE IF h[a].kind = "nums" THEN <<"nums", h[a].elems>>
    ELSE IF h[a].kind = "entry" THEN <<"entry", DeepValue(h, h[a].part), h[a].mult>>
    ELSE <<h[a].kind, [k \in 1..Len(h[a].elems) |-> DeepValue(h, h[a].elems[k])]>>

\* ------------------------------------------------------------------------
\* The parser (toRPN, evaluate).  A string is a sequence of one-character
\* strings; the code's indices are 0-based, so the character at index i is
\* str[i + 1].
\* ------------------------------------------------------------------------
Digits == <<"0", "1", "2", "3", "4", "5", "6", "7", "8", "9">>
isDigit(c) == \E k \in 1..Len(Digits) : Digits[k] = c
digitValue(c) == (CHOOSE k \in 1..Len(Digits) : Digits[k] = c) - 1
isSpace(c) == c = " "
OpChars == {"+", "*", "^"}

\* precedence[tok1] >= precedence[tok2]; precedence['('] is undefined and the
\* comparison with it is false.
precedence(tok) == IF tok = "+" THEN 0 ELSE IF tok = "*" THEN 1 ELSE 2
precedenceGE(tok1, tok2) == tok1 # "(" /\ precedence(tok1) >= precedence(tok2)

\* The first 1-based place from i on that holds no space (no digit).
RECURSIVE skipSpaces(_, _)
skipSpaces(str, i) ==
    IF i <= Len(str) /\ isSpace(str[i]) THEN skipSpaces(str, i + 1) ELSE i

RECURSIVE skipDigits(_, _)
skipDigits(str, i) ==
    IF i <= Len(str) /\ isDigit(str[i]) THEN skipDigits(str, i + 1) ELSE i

\* (,\s*\d+\s*)*\] from place j: the place after the ']', or 0 for no match.
RECURSIVE listTail(_, _)
listTail(str, j) ==
    IF j > Len(str) THEN 0
    ELSE IF str[j] = "]" THEN j + 1
    ELSE IF str[j] = ","
    THEN LET d == skipSpaces(str, j + 1)
             e == skipDigits(str, d)
         IN  IF e = d THEN 0 ELSE listTail(str, skipSpaces(str, e))
    ELSE 0

\* The regular expression re matched at place i: the place after the match,
\* or 0 when it does not match there.
matchEnd(str, i) ==
    LET c == str[i]
    IN  IF isSpace(c) THEN skipSpaces(str, i)
        ELSE IF isDigit(c) THEN skipDigits(str, i)
        ELSE IF c \in OpChars \cup {"(", ")"} THEN i + 1
        ELSE IF c = "["
        THEN LET d == skipSpaces(str, i + 1)
                 e == skipDigits(str, d)
             IN  IF d <= Len(str) /\ str[d] = "]" THEN d + 1
                 ELSE IF e = d THEN 0
                 ELSE listTail(str, skipSpaces(str, e))
        ELSE 0

\* re.exec(str) with lastIndex at place i: the place of the leftmost match
\* from i on, or 0 for null.
RECURSIVE reExec(_, _)
reExec(str, i) ==
    IF i > Len(str) THEN 0
    ELSE IF matchEnd(str, i) > 0 THEN i
    ELSE reExec(str, i + 1)

\* parseInt(s, 10) of the digits at places i..j-1.
RECURSIVE parseInt(_, _, _)
parseInt(str, i, j) ==
    IF j <= i THEN 0 ELSE 10 * parseInt(str, i, j - 1) + digitValue(str[j - 1])

\* extractNums of the places i..j-1: the runs of digits, as numbers.
RECURSIVE extractNums(_, _, _)
extractNums(str, i, j) ==
    IF i >= j THEN <<>>
    ELSE IF isDigit(str[i])
    THEN LET e == skipDigits(str, i)
         IN  <<parseInt(str, i, e)>> \o extractNums(str, e, j)
    ELSE extractNums(str, i + 1, j)

hasDigit(token) == \E k \in 1..Len(token) : isDigit(token[k])

\* Item(item, pos), item being a number, an array or an operator.
NumItem(num, pos) == [kind |-> "num", num |-> num, part |-> <<>>, tok |-> "", pos |-> pos]
PartItem(part, pos) == [kind |-> "part", num |-> 0, part |-> part, tok |-> "", pos |-> pos]
OpItem(tok, pos) == [kind |-> "op", num |-> 0, part |-> <<>>, tok |-> tok, pos |-> pos]

ParseError(pos, extent, msg) ==
    [error |-> TRUE, pos |-> pos, extent |-> extent, msg |-> msg, items |-> <<>>]
Parsed(items) ==
    [error |-> FALSE, pos |-> 0, extent |-> 0, msg |-> "", items |-> items]

\* The while loops of lines 97-98 and 101-103: the operators popped to the
\* output.  st = [opStack, outQueue].
RECURSIVE popOps(_, _)
popOps(st, token) ==
    IF Len(st.opStack) # 0 /\ precedenceGE(st.opStack[Len(st.opStack)].tok, token)
    THEN popOps([opStack |-> SubSeq(st.opStack, 1, Len(st.opStack) - 1),
                 outQueue |-> Append(st.outQueue,
                     OpItem(st.opStack[Len(st.opStack)].tok, st.opStack[Len(st.opStack)].pos))],
                token)
    ELSE st

RECURSIVE popToParen(_)
popToParen(st) ==
    IF Len(st.opStack) # 0 /\ st.opStack[Len(st.opStack)].tok # "("
    THEN popToParen([opStack |-> SubSeq(st.opStack, 1, Len(st.opStack) - 1),
                     outQueue |-> Append(st.outQueue,
                         OpItem(st.opStack[Len(st.opStack)].tok, st.opStack[Len(st.opStack)].pos))])
    ELSE st

\* The loop of lines 116-121 without the test for '(': a parenthesis left on
\* the stack is output as an operator.
RECURSIVE drainOpsNoParenTest(_, _)
drainOpsNoParenTest(opStack, outQueue) ==
    IF Len(opStack) = 0 THEN Parsed(outQueue)
    ELSE drainOpsNoParenTest(SubSeq(opStack, 1, Len(opStack) - 1),
             Append(outQueue, OpItem(opStack[Len(opStack)].tok, opStack[Len(opStack)].pos)))

\* The loop of lines 116-121 after the last token.
RECURSIVE drainOps(_, _)
drainOps(opStack, outQueue) ==
    IF Len(opStack) = 0 THEN Parsed(outQueue)
    ELSE LET top == opStack[Len(opStack)]
         IN  IF top.tok = "("
             THEN ParseError(top.pos, 1, "Unmatched opening parenthesis")
             ELSE drainOps(SubSeq(opStack, 1, Len(opStack) - 1),
                           Append(outQueue, OpItem(top.tok, top.pos)))

\* The token loop of toRPN; st = [opStack, outQueue, lastToken, nextIndex].
RECURSIVE toRPNLoop(_, _)
toRPNLoop(str, st) ==
    LET m == reExec(str, st.nextIndex + 1)
    IN  IF m = 0
        THEN IF st.nextIndex # Len(str)
             THEN ParseError(st.nextIndex, Len(str) - st.nextIndex, "Unrecognised token")
             ELSE drainOps(st.opStack, st.outQueue)
        ELSE
        LET currentPos == m - 1
            e == matchEnd(str, m)
            token == SubSeq(str, m, e - 1)
            nxt == [st EXCEPT !.nextIndex = currentPos + Len(token), !.lastToken = token]
            pushOp(s, tok) == [s EXCEPT !.opStack = Append(@, [tok |-> tok, pos |-> currentPos])]
        IN  IF currentPos # st.nextIndex
            THEN ParseError(st.nextIndex, currentPos - st.nextIndex, "Unrecognised token")
            ELSE IF token[1] = "["
            THEN LET nums == extractNums(str, m, e)
                 IN  IF ~isPartition(nums)
                     THEN ParseError(currentPos, Len(token), "Not a partition")
                     ELSE toRPNLoop(str,
                              [(IF hasDigit(st.lastToken) THEN pushOp(nxt, "*") ELSE nxt)
                                  EXCEPT !.outQueue = Append(@, PartItem(nums, currentPos))])
            ELSE IF isSpace(token[1]) THEN toRPNLoop(str, nxt)
            ELSE IF isDigit(token[1])
            THEN toRPNLoop(str, [nxt EXCEPT !.outQueue =
                                    Append(@, NumItem(parseInt(str, m, e), currentPos))])
            ELSE IF token[1] = "(" THEN toRPNLoop(str, pushOp(nxt, "("))
            ELSE IF token[1] \in OpChars
            THEN LET p == popOps([opStack |-> st.opStack, outQueue |-> st.outQueue], token[1])
                 IN  toRPNLoop(str, pushOp([nxt EXCEPT !.opStack = p.opStack,
                                                       !.outQueue = p.outQueue], token[1]))
            ELSE LET p == popToParen([opStack |-> st.opStack, outQueue |-> st.outQueue])
                 IN  IF Len(p.opStack) = 0
                     THEN ParseError(currentPos, 1, "Unmatched closing parenthesis")
                     ELSE toRPNLoop(str, [nxt EXCEPT
                              !.opStack = SubSeq(p.opStack, 1, Len(p.opStack) - 1),
                              !.outQueue = p.outQueue])

toRPN(str) ==
    toRPNLoop(str, [opStack |-> <<>>, outQueue |-> <<>>, lastToken |-> <<>>, nextIndex |-> 0])

\* What evaluate returns: ok is FALSE when an assertion of the algebra layer
\* fails, ret is the ParseError returned (ret.error) and r the address of
\* the Linear returned otherwise.
Evaluated(h, r) == [ok |-> TRUE, h |-> h, r |-> r, ret |-> Parsed(<<>>)]
EvaluateError(h, pos, extent, msg) ==
    [ok |-> TRUE, h |-> h, r |-> 0, ret |-> ParseError(pos, extent, msg)]
EvaluateCrash(h) == [ok |-> FALSE, h |-> h, r |-> 0, ret |-> Parsed(<<>>)]

\* The push of the Linear that res (the outcome [ok, h, r] of a function of
\* the algebra layer) returns onto rest: [ok, h, ret, stack].
pushLinear(res, rest) ==
    [ok |-> res.ok, h |-> res.h, stack |-> Append(rest, res.r), ret |-> Parsed(<<>>)]

\* type.restrict(algebraPart(item)), placed being the outcome of algebraPart.
restrictPart(placed, t) ==
    IF placed.ok THEN restrict(placed.h, t, placed.r) ELSE placed

\* One iteration of the loop of evaluate, on item with stack holding the
\* addresses of Linears: [ok, h, ret, stack], ret.error when the iteration
\* returns a ParseError.
evaluateItem(h, t, item, stack) ==
    LET right == stack[Len(stack)]
        left == stack[Len(stack) - 1]
        rightEntries == entriesOf(h, right)
    IN  IF item.kind = "num" THEN pushLinear(algebraUnit(h, item.num), stack)
        ELSE IF item.kind = "part"
        THEN pushLinear(restrictPart(algebraPart(Append(h, NumsObj(item.part)), Len(h) + 1), t),
                        stack)
        ELSE IF Len(stack) < 2
        THEN [ok |-> TRUE, h |-> h, stack |-> stack,
              ret |-> ParseError(item.pos, 1, "Not enough arguments")]
        ELSE IF item.tok = "^"
                /\ (Len(rightEntries) # 1 \/ Len(h[rightEntries[1].part].elems) > 0)
        THEN [ok |-> TRUE, h |-> h, stack |-> stack,
              ret |-> ParseError(item.pos, 1, "Exponent must be a number")]
        ELSE pushLinear(IF item.tok = "+" THEN algebraAdd(h, <<left, right>>)
                        ELSE IF item.tok = "*" THEN algebraMul(h, t, <<left, right>>)
                        ELSE algebraPow(h, t, left, rightEntries[1].mult),
                        SubSeq(stack, 1, Len(stack) - 2))

\* The loop of evaluate from item k, and the test after it; evaluateNext
\* continues after the iteration with outcome s.
RECURSIVE evaluateLoop(_, _, _, _, _, _)
RECURSIVE evaluateNext(_, _, _, _, _, _)
evaluateNext(s, h, t, str, items, k) ==
    IF ~s.ok THEN EvaluateCrash(h)
    ELSE IF s.ret.error THEN [ok |-> TRUE, h |-> h, r |-> 0, ret |-> s.ret]
    ELSE evaluateLoop(s.h, t, str, items, k + 1, s.stack)

evaluateLoop(h, t, str, items, k, stack) ==
    IF k > Len(items)
    THEN IF Len(stack) # 1 THEN EvaluateError(h, 0, Len(str), "Missing operations")
         ELSE Evaluated(h, stack[1])
    ELSE evaluateNext(evaluateItem(h, t, items[k], stack), h, t, str, items, k)

evaluate(h, t, str) ==
    LET rpnResult == toRPN(str)
    IN  IF rpnResult.error
        THEN [ok |-> TRUE, h |-> h, r |-> 0, ret |-> rpnResult]
        ELSE evaluateLoop(h, t, str, rpnResult.items, 1, <<>>)

\* ------------------------------------------------------------------------
\* State
\* ------------------------------------------------------------------------
VARIABLES
    op,         \* the entry point called: "expandInGL" or "tensorPartitions"
    n,          \* its argument n
    argLeft,    \* tensorPartitions: the arguments as passed
    argRight,
    partLeft,   \* tensorPartitions: the parameters after the optional swap
    partRight,
    start,      \* visitGLnCrystal: its argument start
    pc,         \* "tensor", "visit", "loop", "done" (returned) or "crashed"
    seen,       \* visitGLnCrystal: the keys of the seen object
    mutVert,    \* visitGLnCrystal: the working vertex
    mutStack,
    expStack,
    toExpand,
    visits,     \* the vertices the visitor has been invoked on, in order
    result,     \* expandInGL: crystal;  tensorPartitions: partitions
    heap,       \* the arrays and objects of the algebra layer, by address
    atype,      \* the AlgebraType the client computes in
    call,       \* the call of the client: function, arguments, result
    parse,      \* the call of the parser: function, str, value returned
    second,     \* a second call of visitGLnCrystal: its arguments and locals
    expand      \* expandInGL on the heap: the addresses of its arrays

travVars == <<op, n, argLeft, argRight, partLeft, partRight, start, pc, seen,
              mutVert, mutStack, expStack, toExpand, visits, result>>
algVars == <<heap, atype, call>>
parseVars == <<parse>>
callVars == <<second, expand>>
vars == <<travVars, algVars, parseVars, callVars>>

NoCall == [fn |-> "none", args |-> {}, order |-> <<>>, arity |-> 0, n |-> 0, res |-> 0,
           resValue |-> <<>>, argValues |-> <<>>, mutated |-> "none"]

NoParse == [fn |-> "none", str |-> <<>>, ret |-> Parsed(<<>>), res |-> 0]

\* The locals of visitGLnCrystal at the head of its loop (lines 357-375).
LoopEntry(v) ==
    [mutVert |-> v, mutStack |-> <<>>, expStack |-> <<>>, toExpand |-> 1,
     seen |-> {toString(v)}, visits |-> <<v>>, done |-> FALSE]

\* No second call yet.  beganAt records where the first call stood when the
\* second was entered.
NoSecond == [pc |-> "none", n |-> 0, start |-> <<>>, d |-> LoopEntry(<<>>),
             beganAt |-> <<>>]

\* No array of expandInGL on the heap.
NoExpand == [start |-> 0, mutVert |-> 0, crystal |-> 0]

\* The visitor closure of the entry point, applied to the working vertex v:
\* the new value of crystal (expandInGL pushes a copy of v) or of partitions
\* (tensorPartitions pushes the extension of partLeft by v unless it is null).
visit(v) ==
    IF op = "expandInGL" THEN Append(result, v)
    ELSE LET maybePartition == latticeWordToMaybePartition(partLeft, v)
         IN  IF maybePartition.ok THEN Append(result, maybePartition.part)
             ELSE result

Init ==
    /\ n \in 0..MaxN
    /\ \/ /\ op = "expandInGL"
          /\ start \in Words
          /\ argLeft = <<>> /\ argRight = <<>>
          /\ pc = "visit"
       \/ /\ op = "tensorPartitions"
          /\ argLeft \in Lists /\ argRight \in Lists
          /\ start = <<>>
          /\ pc = "tensor"
    /\ partLeft = argLeft /\ partRight = argRight
    /\ seen = {}
    /\ mutVert = <<>> /\ mutStack = <<>> /\ expStack = <<>>
    /\ toExpand = 1
    /\ visits = <<>>
    /\ result = <<>>
    /\ heap = <<>>
    /\ atype = [algebra |-> "sym", n |-> 0]
    /\ call = NoCall
    /\ parse = NoParse
    /\ second = NoSecond
    /\ expand = NoExpand

\* TensorEnter with a swap that loses the left operand:
\* [partLeft, partRight] = [partRight, partRight].
TensorEnterBadSwap ==
    /\ pc = "tensor"
    /\ IF n >= 2 /\ isPartition(partLeft) /\ isPartition(partRight)
       THEN LET dim1 == dimensionInGL(n, partLeft)
                dim2 == dimensionInGL(n, partRight)
                swap == dim1 < dim2
            IN  /\ partLeft' = IF swap THEN partRight ELSE partLeft
                /\ partRight' = partRight
                /\ start' = partitionToHw(partRight')
                /\ pc' = "visit"
       ELSE /\ pc' = "crashed"
            /\ UNCHANGED <<partLeft, partRight, start>>
    /\ UNCHANGED <<op, n, argLeft, argRight, seen, mutVert, mutStack, expStack,
                   toExpand, visits, result>>
    /\ UNCHANGED <<algVars, parseVars, callVars>>

\* tensorPartitions up to its call of visitGLnCrystal: the assertion, the
\* two dimensions and the swap.
TensorEnter ==
    /\ pc = "tensor"
    /\ IF n >= 2 /\ isPartition(partLeft) /\ isPartition(partRight)
       THEN LET dim1 == dimensionInGL(n, partLeft)
                dim2 == dimensionInGL(n, partRight)
                swap == dim1 < dim2
            IN  /\ partLeft' = IF swap THEN partRight ELSE partLeft
                /\ partRight' = IF swap THEN partLeft ELSE partRight
                /\ start' = partitionToHw(partRight')
                /\ pc' = "visit"
       ELSE /\ pc' = "crashed"
            /\ UNCHANGED <<partLeft, partRight, start>>
    /\ UNCHANGED <<op, n, argLeft, argRight, seen, mutVert, mutStack, expStack,
                   toExpand, visits, result>>
    /\ UNCHANGED <<algVars, parseVars, callVars>>

\* VisitEnter with the visit of start moved above the two assertions.
VisitEnterVisitFirst ==
    /\ pc = "visit"
    /\ seen' = {toString(start)}
    /\ visits' = Append(visits, start)
    /\ result' = visit(start)
    /\ IF isLatticeWord(start) /\ vertexHeight(start) <= n
       THEN /\ mutVert' = start
            /\ mutStack' = <<>>
            /\ expStack' = <<>>
            /\ toExpand' = 1
            /\ pc' = "loop"
       ELSE /\ pc' = "crashed"
            /\ UNCHANGED <<mutVert, mutStack, expStack, toExpand>>
    /\ UNCHANGED <<op, n, argLeft, argRight, partLeft, partRight, start>>
    /\ UNCHANGED <<algVars, parseVars, callVars>>

\* visitGLnCrystal up to the head of its loop: the two assertions, the visit
\* of start and the initial DFS state.
VisitEnter ==
    /\ pc = "visit"
    /\ IF isLatticeWord(start) /\ vertexHeight(start) <= n
       THEN /\ seen' = {toString(start)}
            /\ visits' = Append(visits, start)
            /\ result' = visit(start)
            /\ mutVert' = start
            /\ mutStack' = <<>>
            /\ expStack' = <<>>
            /\ toExpand' = 1
            /\ pc' = "loop"
       ELSE /\ pc' = "crashed"
            /\ UNCHANGED <<seen, visits, result, mutVert, mutStack, expStack, toExpand>>
    /\ UNCHANGED <<op, n, argLeft, argRight, partLeft, partRight, start>>
    /\ UNCHANGED <<algVars, parseVars, callVars>>

\* LoopBreak without the test of line 381: the loop is left as soon as
\* toExpand == n.
LoopBreakAnyDepth ==
    /\ pc = "loop"
    /\ toExpand = n
    /\ pc' = "done"
    /\ UNCHANGED <<op, n, argLeft, argRight, partLeft, partRight, start, seen,
                   mutVert, mutStack, expStack, toExpand, visits, result>>
    /\ UNCHANGED <<algVars, parseVars, callVars>>

\* toExpand == n with an empty stack: break, and the entry point returns.
LoopBreak ==
    /\ pc = "loop"
    /\ toExpand = n
    /\ Len(mutStack) = 0
    /\ pc' = "done"
    /\ UNCHANGED <<op, n, argLeft, argRight, partLeft, partRight, start, seen,
                   mutVert, mutStack, expStack, toExpand, visits, result>>
    /\ UNCHANGED <<algVars, parseVars, callVars>>

\* Backtrack without restoring the letter of the undone edge.
BacktrackNoRestore ==
    /\ pc = "loop"
    /\ toExpand = n
    /\ Len(mutStack) # 0
    /\ mutStack' = SubSeq(mutStack, 1, Len(mutStack) - 1)
    /\ toExpand' = expStack[Len(expStack)]
    /\ expStack' = SubSeq(expStack, 1, Len(expStack) - 1)
    /\ UNCHANGED <<op, n, argLeft, argRight, partLeft, partRight, start, pc,
                   seen, mutVert, visits, result>>
    /\ UNCHANGED <<algVars, parseVars, callVars>>

\* toExpand == n with a non-empty stack: backtrack one vertex.
Backtrack ==
    /\ pc = "loop"
    /\ toExpand = n
    /\ Len(mutStack) # 0
    /\ mutVert' = Bump(mutVert, mutStack[Len(mutStack)], -1)
    /\ mutStack' = SubSeq(mutStack, 1, Len(mutStack) - 1)
    /\ toExpand' = expStack[Len(expStack)]
    /\ expStack' = SubSeq(expStack, 1, Len(expStack) - 1)
    /\ UNCHANGED <<op, n, argLeft, argRight, partLeft, partRight, start, pc,
                   seen, visits, result>>
    /\ UNCHANGED <<algVars, parseVars, callVars>>

\* toExpand += 1.  The cursor is unbounded when n < 1 (toExpand == n then
\* never holds): the values from MaxExpand on, all larger than n and than
\* every letter and so all treated alike by the loop, are folded by parity
\* onto MaxExpand and MaxExpand + 1.
cursorAfter(c) == IF c <= MaxExpand THEN c + 1 ELSE MaxExpand

\* No edge f_toExpand out of the working vertex.
NoEdge ==
    /\ pc = "loop"
    /\ toExpand # n
    /\ crystal_f(toExpand, mutVert) < 0
    /\ toExpand' = cursorAfter(toExpand)
    /\ UNCHANGED <<op, n, argLeft, argRight, partLeft, partRight, start, pc,
                   seen, mutVert, mutStack, expStack, visits, result>>
    /\ UNCHANGED <<algVars, parseVars, callVars>>

\* An edge to a vertex seen before: the letter is changed and changed back.
SeenEdge ==
    /\ pc = "loop"
    /\ toExpand # n
    /\ LET maybeIdx == crystal_f(toExpand, mutVert)
       IN  /\ maybeIdx >= 0
           /\ toString(Bump(mutVert, maybeIdx, 1)) \in seen
           /\ mutVert' = Bump(Bump(mutVert, maybeIdx, 1), maybeIdx, -1)
    /\ toExpand' = toExpand + 1
    /\ UNCHANGED <<op, n, argLeft, argRight, partLeft, partRight, start, pc,
                   seen, mutStack, expStack, visits, result>>
    /\ UNCHANGED <<algVars, parseVars, callVars>>

\* NewEdge that pushes the cursor itself (expStack.push(toExpand)) in place
\* of toExpand + 1.
NewEdgePushCursor ==
    /\ pc = "loop"
    /\ toExpand # n
    /\ LET maybeIdx == crystal_f(toExpand, mutVert)
           moved == Bump(mutVert, maybeIdx, 1)
       IN  /\ maybeIdx >= 0
           /\ toString(moved) \notin seen
           /\ mutVert' = moved
           /\ seen' = seen \cup {toString(moved)}
           /\ visits' = Append(visits, moved)
           /\ result' = visit(moved)
           /\ mutStack' = Append(mutStack, maybeIdx)
           /\ expStack' = Append(expStack, toExpand)
           /\ toExpand' = 1
    /\ UNCHANGED <<op, n, argLeft, argRight, partLeft, partRight, start, pc>>
    /\ UNCHANGED <<algVars, parseVars, callVars>>

\* NewEdge that leaves the cursor where it is (no toExpand = 1 of line 416).
NewEdgeKeepCursor ==
    /\ pc = "loop"
    /\ toExpand # n
    /\ LET maybeIdx == crystal_f(toExpand, mutVert)
           moved == Bump(mutVert, maybeIdx, 1)
       IN  /\ maybeIdx >= 0
           /\ toString(moved) \notin seen
           /\ mutVert' = moved
           /\ seen' = seen \cup {toString(moved)}
           /\ visits' = Append(visits, moved)
           /\ result' = visit(moved)
           /\ mutStack' = Append(mutStack, maybeIdx)
           /\ expStack' = Append(expStack, toExpand + 1)
           /\ toExpand' = toExpand
    /\ UNCHANGED <<op, n, argLeft, argRight, partLeft, partRight, start, pc>>
    /\ UNCHANGED <<algVars, parseVars, callVars>>

\* An edge to a new vertex: visit it and move to it.
NewEdge ==
    /\ pc = "loop"
    /\ toExpand # n
    /\ LET maybeIdx == crystal_f(toExpand, mutVert)
           moved == Bump(mutVert, maybeIdx, 1)
       IN  /\ maybeIdx >= 0
           /\ toString(moved) \notin seen
           /\ mutVert' = moved
           /\ seen' = seen \cup {toString(moved)}
           /\ visits' = Append(visits, moved)
           /\ result' = visit(moved)
           /\ mutStack' = Append(mutStack, maybeIdx)
           /\ expStack' = Append(expStack, toExpand + 1)
           /\ toExpand' = 1
    /\ UNCHANGED <<op, n, argLeft, argRight, partLeft, partRight, start, pc>>
    /\ UNCHANGED <<algVars, parseVars, callVars>>

Next ==
    \/ TensorEnter
    \/ VisitEnter
    \/ LoopBreak
    \/ Backtrack
    \/ NoEdge
    \/ SeenEdge
    \/ NewEdge

Spec == Init /\ [][Next]_vars

\* ------------------------------------------------------------------------
\* Two calls of visitGLnCrystal.  The first is the call of Spec; the second
\* is entered at any moment of the first (before it, from inside its
\* visitor, between two of its iterations, after its return) and has its own
\* seen, mutVert, mutStack, expStack and toExpand, which are declared in the
\* body of the function (lines 357-375).
\* ------------------------------------------------------------------------
\* Where the first call stands: its place and the number of its visits.
Position == <<pc, Len(visits)>>

\* The arguments of the second call: those of the first, or its own.
SecondArgs == {[n |-> n, start |-> start], [n |-> 2, start |-> <<1, 1>>]}

\* The second call with the seen object hoisted out of the function: it
\* starts with the keys the first call has left in it.
SecondEnterSharedSeen ==
    /\ second.pc = "none"
    /\ pc \in {"visit", "loop", "done"}
    /\ \E a \in SecondArgs :
          /\ a.n >= 1
          /\ second' = IF isLatticeWord(a.start) /\ vertexHeight(a.start) <= a.n
                        THEN [pc |-> "loop", n |-> a.n, start |-> a.start,
                              d |-> [LoopEntry(a.start) EXCEPT !.seen = @ \cup seen],
                              beganAt |-> Position]
                        ELSE [NoSecond EXCEPT !.pc = "crashed", !.n = a.n,
                                              !.start = a.start, !.beganAt = Position]
    /\ UNCHANGED <<travVars, algVars, parseVars, expand>>

\* The second call up to the head of its loop.  (With n = 0 the loop does
\* not end; the second call is made with n >= 1.)
SecondEnter ==
    /\ second.pc = "none"
    /\ pc \in {"visit", "loop", "done"}
    /\ \E a \in SecondArgs :
          /\ a.n >= 1
          /\ second' = IF isLatticeWord(a.start) /\ vertexHeight(a.start) <= a.n
                        THEN [pc |-> "loop", n |-> a.n, start |-> a.start,
                              d |-> LoopEntry(a.start), beganAt |-> Position]
                        ELSE [NoSecond EXCEPT !.pc = "crashed", !.n = a.n,
                                              !.start = a.start, !.beganAt = Position]
    /\ UNCHANGED <<travVars, algVars, parseVars, expand>>

\* One iteration of the loop of the second call; the break returns.
SecondStep ==
    /\ second.pc = "loop"
    /\ LET e == visitStep(second.n, second.d)
       IN  second' = [second EXCEPT !.d = e,
                                    !.pc = IF e.done THEN "done" ELSE "loop"]
    /\ UNCHANGED <<travVars, algVars, parseVars, expand>>

\* ------------------------------------------------------------------------
\* expandInGL(n, start) on the heap: start is the caller's array, crystal
\* the array of line 422, mutVert the array of line 365.  The variable start
\* keeps the contents of the caller's array at the call.
\* ------------------------------------------------------------------------
\* v.slice(0): a new array with the elements of the array at v.
slice(h, v) == [h |-> Append(h, NumsObj(h[v].elems)), r |-> Len(h) + 1]

\* The visitor with crystal.push(v) in place of crystal.push(v.slice(0)).
pushAlias(h, crystal, v) ==
    [h EXCEPT ![crystal] = PartsObj(Append(h[crystal].elems, v))]

\* The visitor of expandInGL (line 423): crystal.push(v.slice(0)).
pushCopy(h, crystal, v) ==
    LET c == slice(h, v)
    IN  [c.h EXCEPT ![crystal] = PartsObj(Append(h[crystal].elems, c.r))]

\* The heap after the body of the loop has taken the DFS state from d to e:
\* the working vertex is written in place, and a new visit invokes the
\* visitor on it.
stepHeap(h, x, d, e) ==
    LET written == [h EXCEPT ![x.mutVert] = NumsObj(e.mutVert)]
    IN  IF Len(e.visits) > Len(d.visits) THEN pushCopy(written, x.crystal, x.mutVert)
        ELSE written

ExpandInit ==
    /\ op = "expandInGL"
    /\ n \in 1..MaxN
    /\ start \in Words
    /\ argLeft = <<>> /\ argRight = <<>> /\ partLeft = <<>> /\ partRight = <<>>
    /\ pc = "visit"
    /\ seen = {}
    /\ mutVert = <<>> /\ mutStack = <<>> /\ expStack = <<>>
    /\ toExpand = 1
    /\ visits = <<>>
    /\ result = <<>>
    /\ heap = <<NumsObj(start)>>
    /\ atype = Sym
    /\ call = NoCall
    /\ parse = NoParse
    /\ second = NoSecond
    /\ expand = [start |-> 1, mutVert |-> 0, crystal |-> 0]

\* expandInGL up to the head of the loop of visitGLnCrystal: the array
\* crystal, the two assertions, the visit of start, the copy mutVert.
ExpandEnter ==
    /\ pc = "visit"
    /\ expand.crystal = 0
    /\ LET crystal == Len(heap) + 1
           h1 == Append(heap, PartsObj(<<>>))
       IN  IF isLatticeWord(h1[expand.start].elems)
              /\ vertexHeight(h1[expand.start].elems) <= n
           THEN LET h2 == pushCopy(h1, crystal, expand.start)
                    m == slice(h2, expand.start)
                IN  /\ heap' = m.h
                    /\ expand' = [expand EXCEPT !.crystal = crystal, !.mutVert = m.r]
                    /\ seen' = {toString(h1[expand.start].elems)}
                    /\ visits' = <<h1[expand.start].elems>>
                    /\ pc' = "loop"
           ELSE /\ heap' = h1
                /\ expand' = [expand EXCEPT !.crystal = crystal]
                /\ pc' = "crashed"
                /\ UNCHANGED <<seen, visits>>
    /\ UNCHANGED <<op, n, argLeft, argRight, partLeft, partRight, start, mutVert,
                   mutStack, expStack, toExpand, result, atype, call, parse, second>>

\* One iteration of the loop of visitGLnCrystal, the working vertex being
\* the array heap[expand.mutVert]; the break returns crystal.
ExpandStep ==
    /\ pc = "loop"
    /\ expand.mutVert # 0
    /\ LET d == [mutVert |-> heap[expand.mutVert].elems, mutStack |-> mutStack,
                 expStack |-> expStack, toExpand |-> toExpand, seen |-> seen,
                 visits |-> visits, done |-> FALSE]
           e == visitStep(n, d)
       IN  /\ pc' = IF e.done THEN "done" ELSE "loop"
           /\ heap' = stepHeap(heap, expand, d, e)
           /\ mutStack' = e.mutStack
           /\ expStack' = e.expStack
           /\ toExpand' = e.toExpand
           /\ seen' = e.seen
           /\ visits' = e.visits
    /\ UNCHANGED <<op, n, argLeft, argRight, partLeft, partRight, start, mutVert,
                   result, atype, call, parse, callVars>>

ExpandNext ==
    \/ ExpandEnter
    \/ ExpandStep

ExpandSpec == ExpandInit /\ [][ExpandNext]_vars

TwoCallInit ==
    /\ Init
    /\ op = "expandInGL"
    /\ n >= 1
    /\ Len(start) <= MaxTwoLen

TwoCallNext ==
    \/ VisitEnter
    \/ LoopBreak
    \/ Backtrack
    \/ NoEdge
    \/ SeenEdge
    \/ NewEdge
    \/ SecondEnter
    \/ SecondStep

TwoCallSpec == TwoCallInit /\ [][TwoCallNext]_vars

\* The loop is sequential code: a step that can be taken is taken.
FairSpec == Spec /\ WF_vars(Next)

\* ------------------------------------------------------------------------
\* A client of the algebra layer: it builds two arrays a and b and the
\* linear combinations [{part: a, mult: 1}] and [{part: b, mult: m}, {part:
\* a copy of a, mult: 1}], calls one function of the layer on objects of the
\* heap, and may then write to an object reachable from the arguments or
\* from the result of the call.
\* ------------------------------------------------------------------------
NumsAddrs == {a \in 1..Len(heap) : heap[a].kind = "nums"}
LinAddrs == {a \in 1..Len(heap) : heap[a].kind = "linear"}

AlgebraInit ==
    /\ op = "algebra"
    /\ pc = "idle"
    /\ n = 0
    /\ argLeft = <<>> /\ argRight = <<>> /\ partLeft = <<>> /\ partRight = <<>>
    /\ start = <<>>
    /\ seen = {}
    /\ mutVert = <<>> /\ mutStack = <<>> /\ expStack = <<>>
    /\ toExpand = 1
    /\ visits = <<>>
    /\ result = <<>>
    /\ \E a, b \in Literals : \E m \in -1..MaxMult :
          heap = <<NumsObj(a), NumsObj(b), EntryObj(1, 1), LinearObj(<<3>>),
                   EntryObj(2, m), NumsObj(a), EntryObj(6, 1), LinearObj(<<5, 7>>)>>
    /\ atype \in {Sym, GL(2)}
    /\ call = NoCall
    /\ parse = NoParse
    /\ second = NoSecond
    /\ expand = NoExpand

\* The call fn(args) with outcome r = [ok, h, r]: the heap and the record of
\* the call after it returns, or the crash of the client.  order lists the
\* arguments in the order of the parameters, where the record keeps it.
DoCallSeq(fn, args, order, arity, nn, r) ==
    /\ pc = "idle"
    /\ IF r.ok
       THEN /\ heap' = r.h
            /\ call' = [fn |-> fn, args |-> args, order |-> order, arity |-> arity,
                        n |-> nn, res |-> r.r,
                        resValue |-> DeepValue(r.h, r.r),
                        argValues |-> [a \in args |-> DeepValue(r.h, a)],
                        mutated |-> "none"]
            /\ pc' = "called"
       ELSE /\ heap' = heap
            /\ call' = [NoCall EXCEPT !.fn = fn, !.args = args, !.order = order,
                                      !.arity = arity, !.n = nn]
            /\ pc' = "crashed"
    /\ UNCHANGED <<op, n, argLeft, argRight, partLeft, partRight, start, seen,
                   mutVert, mutStack, expStack, toExpand, visits, result, atype, parse, callVars>>

DoCallIn(fn, args, arity, nn, r) == DoCallSeq(fn, args, <<>>, arity, nn, r)

\* A call that takes no n.
DoCall(fn, args, arity, r) == DoCallIn(fn, args, arity, 0, r)

CallUnit ==
    \E num \in -1..MaxMult : DoCall("algebraUnit", {}, 0, algebraUnit(heap, num))

CallPart ==
    \E part \in NumsAddrs : DoCall("algebraPart", {part}, 1, algebraPart(heap, part))

CallNormalise ==
    \E lin \in LinAddrs :
        DoCall("algebraNormalise", {lin}, 1, algebraNormalise(heap, lin))

CallAdd ==
    \E lin1, lin2 \in LinAddrs :
        DoCall("algebraAdd", {lin1, lin2}, 2, algebraAdd(heap, <<lin1, lin2>>))

CallMul ==
    \E lins \in {<<>>} \cup {<<l>> : l \in LinAddrs} \cup {<<l1, l2>> : l1 \in LinAddrs, l2 \in LinAddrs} :
        DoCall("algebraMul", Range(lins), Len(lins), algebraMul(heap, atype, lins))

CallPow ==
    \E lin \in LinAddrs : \E pow \in 0..MaxPow :
        DoCall("algebraPow", {lin}, pow, algebraPow(heap, atype, lin, pow))

CallRestrict ==
    \E lin \in LinAddrs : DoCall("restrict", {lin}, 1, restrict(heap, atype, lin))

CallLatticeWord ==
    \E sofar, word \in NumsAddrs :
        DoCallSeq("latticeWordToMaybePartition", {sofar, word}, <<sofar, word>>, 2, 0,
                  latticeWordToMaybePartition_h(heap, sofar, word))

CallHwToPartition ==
    \E v \in NumsAddrs : DoCall("hwToPartition", {v}, 1, hwToPartition_h(heap, v))

CallTensorPartitions ==
    \E nn \in 2..MaxN : \E left, right \in NumsAddrs :
        DoCallSeq("tensorPartitions", {left, right}, <<left, right>>, 2, nn,
                  tensorPartitions_h(heap, nn, left, right))

\* A write of the client to the object o: an element of a number array is
\* incremented (1 is pushed onto an empty one), a multiplicity is
\* incremented, the last element of a list is popped.
Written(o) ==
    IF o.kind = "nums"
    THEN [o EXCEPT !.elems = IF @ = <<>> THEN <<1>> ELSE [@ EXCEPT ![1] = @ + 1]]
    ELSE IF o.kind = "entry" THEN [o EXCEPT !.mult = @ + 1]
    ELSE [o EXCEPT !.elems = IF @ = <<>> THEN @ ELSE SubSeq(@, 1, Len(@) - 1)]

\* After its last call the client writes to storage of an argument ("arg")
\* or of the result ("res").
Mutate ==
    /\ pc = "called"
    /\ pc' = "mutated"
    /\ \E side \in {"arg", "res"} :
         \E x \in Reach(heap, IF side = "arg" THEN call.args ELSE {call.res} \ {0}) :
            /\ Written(heap[x]) # heap[x]
            /\ heap' = [heap EXCEPT ![x] = Written(@)]
            /\ call' = [call EXCEPT !.mutated = side]
    /\ UNCHANGED <<op, n, argLeft, argRight, partLeft, partRight, start, seen,
                   mutVert, mutStack, expStack, toExpand, visits, result, atype, parse, callVars>>

\* ------------------------------------------------------------------------
\* Callers of the parser.
\* ------------------------------------------------------------------------
Alphabet == {"0", "1", "2", "+", "*", "^", "(", ")", "[", "]", ",", " ", "x"}
ShortStrings == UNION {[1..k -> Alphabet] : k \in 0..MaxStr}

ExGL2Zero == <<"[", "3", ",", " ", "2", ",", " ", "1", "]">>
ExGL2Sum == <<"[", "3", ",", " ", "2", ",", " ", "1", "]", " ", "+", " ", "2", "[", "2", ",", " ", "1", "]">>
ExProduct == <<"[", "2", ",", " ", "1", "]", " ", "*", " ", "[", "1", "]">>
ErrorExamples ==
    {<<" ", "[", "1", ",", " ", "2", "]">>,
     <<" ", "x", " ", "2">>,
     <<"1", " ", "+", " ", "2", ")">>,
     <<"(", ")", "(", "1", " ", "+", " ", "2">>,
     <<"7", "]">>,
     <<"1", " ", "+">>,
     <<"1", " ", "1">>,
     <<"1", "[", "1", "]", "^", "0", "^">>,
     <<"(", "1", " ", "+", " ", "[", "1", "]", ")", "^", "2">>,
     <<"[", "1", "]", "^", "[", "1", "]">>}
ExChain == <<"[", "1", "]", " ", "*", " ", "[", "1", "]", " ", "*", " ", "[", "1", "]">>
Examples == {ExGL2Zero, ExGL2Sum, ExProduct, ExChain}
Inputs == (ShortStrings \cup Examples) \cup ErrorExamples

\* evaluate(atype, s) called on the heap as it is, r being its outcome.
EvaluateReturns(s, r) ==
    /\ heap' = r.h
    /\ parse' = [fn |-> "evaluate", str |-> s, ret |-> r.ret, res |-> r.r]
    /\ pc' = IF r.ok THEN "called" ELSE "crashed"

Evaluate(s) ==
    /\ pc = "idle"
    /\ EvaluateReturns(s, evaluate(heap, atype, s))
    /\ UNCHANGED <<op, n, argLeft, argRight, partLeft, partRight, start, seen,
                   mutVert, mutStack, expStack, toExpand, visits, result, atype, call, callVars>>

CallEvaluateExample == pc = "idle" /\ \E s \in Examples : Evaluate(s)

CallEvaluate == pc = "idle" /\ \E s \in Inputs : Evaluate(s)

CallToRPN ==
    /\ pc = "idle"
    /\ \E s \in Inputs :
          parse' = [fn |-> "toRPN", str |-> s, ret |-> toRPN(s), res |-> 0]
    /\ pc' = "called"
    /\ UNCHANGED <<op, n, argLeft, argRight, partLeft, partRight, start, seen,
                   mutVert, mutStack, expStack, toExpand, visits, result, algVars, callVars>>

ParseInit ==
    /\ op = "parse"
    /\ pc = "idle"
    /\ n = 0
    /\ argLeft = <<>> /\ argRight = <<>> /\ partLeft = <<>> /\ partRight = <<>>
    /\ start = <<>>
    /\ seen = {}
    /\ mutVert = <<>> /\ mutStack = <<>> /\ expStack = <<>>
    /\ toExpand = 1
    /\ visits = <<>>
    /\ result = <<>>
    /\ heap = <<>>
    /\ atype \in {Sym, GL(2)}
    /\ call = NoCall
    /\ parse = NoParse
    /\ second = NoSecond
    /\ expand = NoExpand

ParseNext ==
    \/ CallToRPN
    \/ CallEvaluate

ParseSpec == ParseInit /\ [][ParseNext]_vars

AlgebraNext ==
    \/ CallEvaluateExample
    \/ CallUnit
    \/ CallPart
    \/ CallNormalise
    \/ CallAdd
    \/ CallMul
    \/ CallPow
    \/ CallRestrict
    \/ CallLatticeWord
    \/ CallHwToPartition
    \/ CallTensorPartitions
    \/ Mutate

AlgebraSpec == AlgebraInit /\ [][AlgebraNext]_vars

\* ------------------------------------------------------------------------
\* A client of algebraNormalise: it builds a list of at most MaxEntries
\* pairs {part, mult}, each with an array of its own, normalises it, and
\* normalises the result again.
\* ------------------------------------------------------------------------
NormParts == {<<>>, <<1>>, <<1, 1>>, <<2>>}
NormEntries == [part : NormParts, mult : (0 - MaxMult)..MaxMult]
NormLists == UNION {[1..k -> NormEntries] : k \in 0..MaxEntries}

\* The heap holding the list es: the arrays, the pairs, the list (the last
\* address).
heapOf(es) ==
    LET N == Len(es)
    IN  ([k \in 1..N |-> NumsObj(es[k].part)] \o [k \in 1..N |-> EntryObj(k, es[k].mult)])
            \o <<LinearObj([k \in 1..N |-> N + k])>>

\* The list at address lin by content: its pairs of a partition and a
\* multiplicity.
LinValue(h, lin) ==
    [k \in 1..Len(h[lin].elems) |->
        [part |-> h[h[h[lin].elems[k]].part].elems, mult |-> h[h[lin].elems[k]].mult]]

NormInit ==
    /\ op = "normalise"
    /\ pc = "idle"
    /\ n = 0
    /\ argLeft = <<>> /\ argRight = <<>> /\ partLeft = <<>> /\ partRight = <<>>
    /\ start = <<>>
    /\ seen = {}
    /\ mutVert = <<>> /\ mutStack = <<>> /\ expStack = <<>>
    /\ toExpand = 1
    /\ visits = <<>>
    /\ result = <<>>
    /\ \E es \in NormLists : heap = heapOf(es)
    /\ atype = Sym
    /\ call = NoCall
    /\ parse = NoParse
    /\ second = NoSecond
    /\ expand = NoExpand

\* algebraNormalise(algebraNormalise(lin)): the second call, on the result of
\* the first; result holds the address it returns.
NormaliseAgain ==
    /\ pc = "called"
    /\ call.fn = "algebraNormalise"
    /\ LET r == algebraNormalise(heap, call.res)
       IN  /\ heap' = r.h
           /\ result' = <<r.r>>
    /\ pc' = "renormalised"
    /\ UNCHANGED <<op, n, argLeft, argRight, partLeft, partRight, start, seen,
                   mutVert, mutStack, expStack, toExpand, visits, atype, call, parse, callVars>>

NormNext ==
    \/ CallNormalise
    \/ NormaliseAgain

NormSpec == NormInit /\ [][NormNext]_vars

AlgebraTypeOK ==
    /\ op = "algebra"
    /\ pc \in {"idle", "called", "mutated", "crashed"}
    /\ \A a \in 1..Len(heap) : \A b \in Refs(heap, a) : b \in 1..Len(heap)

TypeOK ==
    /\ op \in {"expandInGL", "tensorPartitions"}
    /\ pc \in {"tensor", "visit", "loop", "done", "crashed"}
    /\ n \in 0..MaxN
    /\ Len(mutStack) = Len(expStack)

\* The step-by-step run and the run to completion are the same traversal.
RunsAgree ==
    /\ (pc = "done" /\ n >= 1) =>
           visitGLnCrystal(n, start) = [ok |-> TRUE, visits |-> visits]
    /\ (pc = "done" /\ op = "tensorPartitions") =>
           tensorPartitions(n, argLeft, argRight) = [ok |-> TRUE, parts |-> result]
    /\ (pc = "crashed" /\ op = "tensorPartitions") =>
           ~tensorPartitions(n, argLeft, argRight).ok
    /\ (pc = "crashed" /\ op = "expandInGL") => ~visitGLnCrystal(n, start).ok
\* ------------------------------------------------------------------------
\* Vocabulary of the properties
\* ------------------------------------------------------------------------
NoDup(s) == \A a, b \in 1..Len(s) : a # b => s[a] # s[b]
SeqToBag(s) == [x \in Range(s) |-> Cardinality({k \in 1..Len(s) : s[k] = x})]
Count(x, v, a, b) == Cardinality({m \in a..b : v[m] = x})

\* The bracket rule of f_i stated directly: the opener at 1-based position j
\* is never closed when no stretch after it holds more closers than openers.
NeverClosed(i, v, j) ==
    /\ v[j] = i
    /\ \A k \in (j + 1)..Len(v) : Count(i + 1, v, j + 1, k) <= Count(i, v, j + 1, k)

\* 0-based position of the left-most never-closed opener, or -1.
LeftmostNeverClosed(i, v) ==
    LET open == {j \in 1..Len(v) : NeverClosed(i, v, j)}
    IN  IF open = {} THEN -1
        ELSE (CHOOSE j \in open : \A k \in open : j <= k) - 1

\* The vertices reachable from a set of vertices by edges f_1 .. f_(nn-1).
RECURSIVE EdgeClosure(_, _)
EdgeClosure(nn, S) ==
    LET T == S \cup {[v EXCEPT ![LeftmostNeverClosed(i, v) + 1] = i + 1] :
                        <<i, v>> \in {e \in (1..(nn - 1)) \X S :
                                         LeftmostNeverClosed(e[1], e[2]) >= 0}}
    IN  IF T = S THEN S ELSE EdgeClosure(nn, T)

Reachable(nn, v) == EdgeClosure(nn, {v})

\* ------------------------------------------------------------------------
\* C1: the visitor is never invoked twice on the same vertex, and when the
\* traversal returns the visited vertices are exactly those reachable from
\* start by edges f_1 .. f_(n-1), the set the breadth-first expandInGL
\* computes.
\* ------------------------------------------------------------------------
C1_VisitsExactlyReachable ==
    /\ NoDup(visits)
    /\ pc = "done" =>
          /\ Range(visits) = Reachable(n, start)
          /\ Range(visits) = Range(expandInGL_bfs(n, start))
          /\ op = "expandInGL" => result = visits

\* A crystal that is not a tree has been traversed to the end.
C1_Witness ==
    /\ pc = "done"
    /\ n = 3
    /\ start = <<1, 1, 2>>
    /\ Len(visits) = 8
\* ------------------------------------------------------------------------
\* C2: visitGLnCrystal(n, [], visit), for every n >= 0, invokes the visitor
\* exactly once, on the empty vertex, and then terminates.
\* ------------------------------------------------------------------------
C2_EmptyStartTerminates ==
    (pc = "visit" /\ start = <<>>) ~> (pc = "done" /\ visits = <<(<<>>)>>)

\* ------------------------------------------------------------------------
\* C3: for n >= 2 and valid partitions p and q, with any number of rows,
\* tensorPartitions(n, p, q) does not abort and returns valid partitions.
\* ------------------------------------------------------------------------
TensorAsserted ==
    /\ op = "tensorPartitions"
    /\ n >= 2
    /\ isPartition(argLeft)
    /\ isPartition(argRight)

C3_TensorNeverAborts ==
    TensorAsserted =>
        /\ pc # "crashed"
        /\ \A k \in 1..Len(result) : isPartition(result[k])

\* C3 as amended: for n >= 2 and valid partitions p and q, each with at most
\* n rows, tensorPartitions(n, p, q) does not abort, every partition it has
\* collected is valid, and it returns; with an operand of more than n rows
\* the height assertion of visitGLnCrystal aborts it.
C3_TensorReturnsWithinRows ==
    /\ [](TensorAsserted =>
            /\ \A k \in 1..Len(result) : isPartition(result[k])
            /\ (Len(argLeft) <= n /\ Len(argRight) <= n) => pc # "crashed"
            /\ (Len(argLeft) > n \/ Len(argRight) > n) => pc \in {"tensor", "visit", "crashed"})
    /\ (TensorAsserted /\ Len(argLeft) <= n /\ Len(argRight) <= n) ~> (pc = "done")

C3_Witness ==
    /\ TensorAsserted
    /\ pc = "done"
    /\ n = 2
    /\ argLeft = <<2, 1>>
    /\ argRight = <<1, 1>>
    /\ Len(result) >= 1

\* ------------------------------------------------------------------------
\* C4: for n >= 1 and a partition p of at most n rows, dimensionInGL(n, p)
\* is the number of vertices the traversal from partitionToHw(p) visits.
\* ------------------------------------------------------------------------
\* The partitions p with start = partitionToHw(p).
StartPartitions ==
    IF op = "tensorPartitions" THEN {partRight}
    ELSE {p \in {hwToPartition(start)} : isPartition(p) /\ partitionToHw(p) = start}

C4_DimensionIsCrystalSize ==
    (pc = "done" /\ n >= 1) =>
        \A p \in StartPartitions :
            /\ Len(p) <= n
            /\ dimensionInGL(n, p) = Len(visits)
            /\ op = "expandInGL" => dimensionInGL(n, p) = Len(result)

C4_Witness ==
    /\ pc = "done"
    /\ op = "expandInGL"
    /\ n = 3
    /\ start = <<1, 1, 2>>
    /\ StartPartitions = {<<2, 1>>}
    /\ Len(result) = 8

\* ------------------------------------------------------------------------
\* C5: crystal_f(i, v) is the position of the left-most letter i that is
\* never closed under bracket matching (i opens, i+1 closes), or -1; the
\* two-counter scan agrees with the bottom of the stack of the stack-based
\* crystal_f.
\* ------------------------------------------------------------------------
StackBottom(i, v) ==
    LET stack == crystal_f_stackScan(i, v, 0, <<>>)
    IN  IF Len(stack) = 0 THEN -1 ELSE stack[1]

C5_TwoCountersAreStackBottom ==
    \A v \in {start, mutVert} : \A i \in 1..(MaxLetter + 1) :
        /\ crystal_f(i, v) = LeftmostNeverClosed(i, v)
        /\ crystal_f(i, v) = StackBottom(i, v)
        /\ crystal_f_stack(i, v).ok <=> crystal_f(i, v) >= 0
        /\ crystal_f_stack(i, v).ok =>
               crystal_f_stack(i, v).vert = Bump(v, crystal_f(i, v), 1)

\* The loop is about to scan a vertex whose first bracket is a closer, so
\* the running balance goes negative before the opener is met.
C5_Witness ==
    /\ pc = "loop"
    /\ mutVert = <<2, 1>>
    /\ toExpand = 1
    /\ crystal_f(toExpand, mutVert) = 1

\* ------------------------------------------------------------------------
\* C6: isLatticeWord(v) holds exactly when in every prefix of v each letter
\* k >= 2 occurs at most as often as k-1, and then hwToPartition(v) is the
\* list of letter counts of v, a valid partition.
\* ------------------------------------------------------------------------
PrefixesDominated(v) ==
    \A m \in 0..Len(v) : \A k \in 2..(MaxLetter + 1) :
        Count(k, v, 1, m) <= Count(k - 1, v, 1, m)

LetterCounts(v) == [k \in 1..vertexHeight(v) |-> Count(k, v, 1, Len(v))]

C6_LatticeWordIsPrefixDominance ==
    pc \in {"loop", "done", "crashed"} =>
        /\ isLatticeWord(start) <=> PrefixesDominated(start)
        /\ (pc # "crashed" \/ op = "tensorPartitions") => isLatticeWord(start)
        /\ isLatticeWord(start) =>
              /\ hwToPartition(start) = LetterCounts(start)
              /\ isPartition(hwToPartition(start))

C6_Witness ==
    /\ pc = "loop"
    /\ start = <<1, 2, 1>>
    /\ hwToPartition(start) = <<2, 1>>

\* ------------------------------------------------------------------------
\* C7: for every valid partition p, partitionToHw(p) is a lattice word and
\* latticeWordToMaybePartition([], partitionToHw(p)) returns p.
\* ------------------------------------------------------------------------
C7_PartitionRoundTrip ==
    /\ \A p \in {argLeft, argRight, partLeft, partRight} :
           isPartition(p) =>
               /\ isLatticeWord(partitionToHw(p))
               /\ latticeWordToMaybePartition(<<>>, partitionToHw(p)) = Just(p)
    /\ (op = "tensorPartitions" /\ pc \in {"visit", "loop", "done"}) =>
           latticeWordToMaybePartition(<<>>, start) = Just(partRight)

C7_Witness ==
    /\ op = "tensorPartitions"
    /\ pc = "loop"
    /\ partRight = <<2, 2, 1>>
    /\ start = <<1, 1, 2, 2, 3>>

\* ------------------------------------------------------------------------
\* C8: for n >= 2 and valid partitions p, q of at most n rows, traversing
\* the crystal of q and extending p gives the same multiset of partitions as
\* traversing the crystal of p and extending q, so tensorPartitions(n, p, q)
\* and tensorPartitions(n, q, p) are equal as multisets.
\* ------------------------------------------------------------------------
\* The extensions of left by the vertices of a crystal, nulls dropped.
RECURSIVE Extensions(_, _)
Extensions(left, crystal) ==
    IF crystal = <<>> THEN <<>>
    ELSE LET m == latticeWordToMaybePartition(left, Head(crystal))
         IN  (IF m.ok THEN <<m.part>> ELSE <<>>) \o Extensions(left, Tail(crystal))

\* The partitions obtained by traversing the crystal of right and extending
\* left, with no swap.
TensorUnswapped(nn, left, right) ==
    Extensions(left, expandInGL_bfs(nn, partitionToHw(right)))

C8_TensorCommutes ==
    (TensorAsserted /\ pc = "done") =>
        /\ SeqToBag(result) = SeqToBag(TensorUnswapped(n, argLeft, argRight))
        /\ SeqToBag(result) = SeqToBag(TensorUnswapped(n, argRight, argLeft))

\* Operands of different dimensions, the call having swapped them.
C8_Witness ==
    /\ TensorAsserted
    /\ pc = "done"
    /\ n = 3
    /\ argLeft = <<1, 1>>
    /\ argRight = <<2, 1>>
    /\ partLeft = argRight
    /\ partRight = argLeft
    /\ Len(result) = 3

\* ------------------------------------------------------------------------
\* C9: when start is not a lattice word or height(start) > n, the assertion
\* of visitGLnCrystal fails before the visitor is invoked, so expandInGL and
\* tensorPartitions produce no partial result.
\* ------------------------------------------------------------------------
C9_DefectBeforeAnyVisit ==
    /\ (pc \in {"loop", "done", "crashed"} /\ op = "expandInGL"
           /\ (~isLatticeWord(start) \/ vertexHeight(start) > n)) => pc = "crashed"
    /\ (pc \in {"loop", "done"}) => (isLatticeWord(start) /\ vertexHeight(start) <= n)
    /\ pc = "crashed" => (visits = <<>> /\ result = <<>> /\ seen = {})

C9_Witness ==
    /\ pc = "crashed"
    /\ op = "expandInGL"
    /\ isLatticeWord(start)
    /\ vertexHeight(start) = 3
    /\ n = 2

\* ------------------------------------------------------------------------
\* C10: the storage of the result of a call and of its arguments.
\* ------------------------------------------------------------------------
Returned == pc \in {"called", "mutated"}

\* The addresses reachable both from the result and from an argument.
SharedStorage == Reach(heap, {call.res} \ {0}) \cap Reach(heap, call.args)

\* A write to an argument has left the result as it was returned, and a
\* write to the result has left every argument as it was.
WriteNotSeen ==
    /\ call.mutated = "arg" => DeepValue(heap, call.res) = call.resValue
    /\ call.mutated = "res" =>
           \A a \in call.args : DeepValue(heap, a) = call.argValues[a]

\* C10 as stated: every function that returns a Partition or a linear
\* combination returns a fresh value, one that shares no storage with any
\* argument, so that a later write to an argument never changes the result
\* and a write to the result never changes an argument.
C10_ResultsAreFresh ==
    Returned => (SharedStorage = {} /\ WriteNotSeen)

FreshFunctions ==
    {"latticeWordToMaybePartition", "hwToPartition", "tensorPartitions", "algebraUnit"}

\* The calls that build their list and its entries anew.
NewListCall ==
    \/ call.fn \in {"algebraPart", "algebraNormalise", "algebraAdd"}
    \/ call.fn \in {"algebraMul", "algebraPow"} /\ call.arity >= 2

\* C10 amended: latticeWordToMaybePartition, hwToPartition, tensorPartitions
\* and algebraUnit return a value that shares no storage with any argument,
\* so a write to an argument never changes the result and a write to the
\* result never changes an argument; algebraPart, algebraNormalise,
\* algebraAdd, algebraMul of two or more operands and algebraPow with
\* pow >= 2 return a new list of new entries, and the only storage the
\* result can share with an argument is partition arrays.
C10_FreshListsSharedPartitions ==
    Returned =>
        /\ call.fn \in FreshFunctions => (SharedStorage = {} /\ WriteNotSeen)
        /\ NewListCall => \A x \in SharedStorage : heap[x].kind = "nums"

\* latticeWordToMaybePartition has returned an extension of sofar and the
\* client has then written to sofar or to word.
C10_Witness ==
    /\ pc = "mutated"
    /\ call.fn = "latticeWordToMaybePartition"
    /\ call.res # 0
    /\ call.mutated = "arg"
    /\ heap[call.res].elems = <<2, 1, 1>>

\* ------------------------------------------------------------------------
\* C11: algebraNormalise(lin) is in canonical form (the partitions strictly
\* descending in lexicographic order, no multiplicity 0) and the
\* multiplicity of every partition in it is the sum of its multiplicities
\* in lin, the partition being absent when the sum is 0.
\* ------------------------------------------------------------------------
\* a comes before b in lexicographic order (a proper prefix comes first).
LexLess(a, b) ==
    \E k \in 1..Len(b) :
        /\ \A j \in 1..(k - 1) : j <= Len(a) /\ a[j] = b[j]
        /\ (k = Len(a) + 1 \/ (k <= Len(a) /\ a[k] < b[k]))

RECURSIVE MultSum(_, _, _)
MultSum(lv, p, k) ==
    IF k = 0 THEN 0
    ELSE MultSum(lv, p, k - 1) + (IF lv[k].part = p THEN lv[k].mult ELSE 0)

Canonical(lv) ==
    /\ \A i \in 1..Len(lv) : \A j \in (i + 1)..Len(lv) : LexLess(lv[j].part, lv[i].part)
    /\ \A i \in 1..Len(lv) : lv[i].mult # 0

NormArg == CHOOSE a \in call.args : TRUE

C11_NormaliseCanonicalSums ==
    (pc = "called" /\ call.fn = "algebraNormalise") =>
        LET inp == LinValue(heap, NormArg)
            out == LinValue(heap, call.res)
        IN  /\ Canonical(out)
            /\ \A p \in NormParts :
                  LET sum == MultSum(inp, p, Len(inp))
                      at == {i \in 1..Len(out) : out[i].part = p}
                  IN  IF sum = 0 THEN at = {}
                      ELSE \E i \in at : at = {i} /\ out[i].mult = sum
            /\ \A i \in 1..Len(out) : out[i].part \in NormParts

\* Two pairs of one partition that cancel, around a pair of a greater
\* partition.
C11_Witness ==
    /\ pc = "called"
    /\ call.fn = "algebraNormalise"
    /\ LinValue(heap, NormArg) =
           <<[part |-> <<1>>, mult |-> 1], [part |-> <<2>>, mult |-> 1],
             [part |-> <<1>>, mult |-> -1]>>
    /\ LinValue(heap, call.res) = <<[part |-> <<2>>, mult |-> 1]>>

\* ------------------------------------------------------------------------
\* C12: algebraNormalise is idempotent: normalising its result again gives
\* an equal list, and normalising a list in canonical form gives a list
\* equal to it.
\* ------------------------------------------------------------------------
C12_NormaliseIdempotent ==
    /\ pc = "renormalised" =>
           LinValue(heap, result[1]) = LinValue(heap, call.res)
    /\ (pc = "called" /\ call.fn = "algebraNormalise"
           /\ Canonical(LinValue(heap, NormArg))) =>
           LinValue(heap, call.res) = LinValue(heap, NormArg)

\* A list of three pairs that is not in canonical form has been normalised
\* twice.
C12_Witness ==
    /\ pc = "renormalised"
    /\ Len(LinValue(heap, NormArg)) = 3
    /\ Len(LinValue(heap, call.res)) = 1
    /\ Len(LinValue(heap, result[1])) = 1

\* ------------------------------------------------------------------------
\* C13: tensorPartitions(2, [1], [1]) returns the multiset {[2], [1,1]}, and
\* the product of [1] with [1] in the symmetric algebra, tensored in GL(2),
\* normalises to [2] + [1,1], each with multiplicity 1.
\* ------------------------------------------------------------------------
\* The array of partitions at address a, by content.
PartsValue(h, a) == [k \in 1..Len(h[a].elems) |-> h[h[a].elems[k]].elems]

BoxLin == <<[part |-> <<1>>, mult |-> 1]>>

C13_BoxTimesBox ==
    /\ (pc \in {"called", "crashed"} /\ call.fn = "tensorPartitions" /\ call.n = 2
           /\ \A a \in call.args : heap[a].elems = <<1>>) =>
          /\ pc = "called"
          /\ SeqToBag(PartsValue(heap, call.res)) = SeqToBag(<<(<<2>>), <<1, 1>>>>)
    /\ (pc \in {"called", "crashed"} /\ call.fn = "algebraMul" /\ call.arity = 2
           /\ atype = Sym /\ \A a \in call.args : LinValue(heap, a) = BoxLin) =>
          /\ pc = "called"
          /\ LinValue(heap, call.res) =
                 <<[part |-> <<2>>, mult |-> 1], [part |-> <<1, 1>>, mult |-> 1]>>

\* The product [1] * [1] has been taken in the symmetric algebra.
C13_Witness ==
    /\ pc = "called"
    /\ call.fn = "algebraMul"
    /\ call.arity = 2
    /\ atype = Sym
    /\ \A a \in call.args : LinValue(heap, a) = BoxLin
    /\ Len(heap[call.res].elems) = 2

\* ------------------------------------------------------------------------
\* C14: for GL(n), restrict(lin) keeps exactly the entries of lin whose
\* partition has at most n rows, in their order, and returns algebraUnit(0)
\* when none remains; for Sym it returns lin unchanged.  So evaluate in
\* GL(2) gives algebraUnit(0) for "[3, 2, 1]" and [2,1] with multiplicity 2
\* for "[3, 2, 1] + 2[2, 1]".
\* ------------------------------------------------------------------------
ZeroLin == <<[part |-> <<>>, mult |-> 0]>>

C14_RestrictKeepsRows ==
    /\ (pc \in {"called", "crashed"} /\ call.fn = "restrict") =>
          /\ pc = "called"
          /\ LET inp == LinValue(heap, NormArg)
                 out == LinValue(heap, call.res)
                 kept == SelectSeq(inp, LAMBDA e : Len(e.part) <= atype.n)
             IN  IF atype.algebra = "gl"
                 THEN out = (IF kept = <<>> THEN ZeroLin ELSE kept)
                 ELSE call.res = NormArg /\ out = inp
    /\ (parse.fn = "evaluate" /\ atype = GL(2) /\ parse.str = ExGL2Zero) =>
          /\ pc = "called"
          /\ ~parse.ret.error
          /\ LinValue(heap, parse.res) = ZeroLin
    /\ (parse.fn = "evaluate" /\ atype = GL(2) /\ parse.str = ExGL2Sum) =>
          /\ pc = "called"
          /\ ~parse.ret.error
          /\ LinValue(heap, parse.res) = <<[part |-> <<2, 1>>, mult |-> 2]>>

\* "[3, 2, 1] + 2[2, 1]" has been evaluated in GL(2).
C14_Witness ==
    /\ pc = "called"
    /\ parse.fn = "evaluate"
    /\ parse.str = ExGL2Sum
    /\ atype = GL(2)
    /\ Len(heap[parse.res].elems) = 1

\* ------------------------------------------------------------------------
\* C15: toRPN and evaluate never throw on ill-formed input but return a
\* ParseError that locates the offending span: an unmatched ')' (its index,
\* extent 1), the last unmatched '(' (its index, extent 1), a bracketed list
\* that is not a partition (the token), unrecognised text (the span), an
\* operator with fewer than two operands (its index, extent 1), leftover
\* operands (the whole input).
\* ------------------------------------------------------------------------
\* The ')' at place i closes nothing: as many '(' as ')' come before it.
ClosesNothing(str, i) ==
    str[i] = ")" /\ Count("(", str, 1, i - 1) = Count(")", str, 1, i - 1)

\* The '(' at place i is never closed.
NeverClosedParen(str, i) ==
    /\ str[i] = "("
    /\ \A j \in (i + 1)..Len(str) : Count(")", str, i + 1, j) <= Count("(", str, i + 1, j)

Balanced(str) ==
    /\ \A j \in 1..Len(str) : Count(")", str, 1, j) <= Count("(", str, 1, j)
    /\ Count(")", str, 1, Len(str)) = Count("(", str, 1, Len(str))

\* The span of the error e lies in str.
InString(str, e) == e.pos >= 0 /\ e.extent >= 0 /\ e.pos + e.extent <= Len(str)

Located(str, e) ==
    /\ InString(str, e)
    /\ e.msg = "Unmatched closing parenthesis" =>
           e.extent = 1 /\ ClosesNothing(str, e.pos + 1)
    /\ e.msg = "Unmatched opening parenthesis" =>
           /\ e.extent = 1
           /\ NeverClosedParen(str, e.pos + 1)
           /\ \A i \in (e.pos + 2)..Len(str) : ~NeverClosedParen(str, i)
    /\ e.msg = "Not a partition" =>
           /\ e.extent >= 2
           /\ str[e.pos + 1] = "["
           /\ str[e.pos + e.extent] = "]"
           /\ \A i \in (e.pos + 2)..(e.pos + e.extent - 1) :
                 isDigit(str[i]) \/ isSpace(str[i]) \/ str[i] = ","
           /\ ~isPartition(extractNums(str, e.pos + 1, e.pos + e.extent + 1))
    /\ e.msg = "Unrecognised token" =>
           /\ e.extent >= 1
           /\ \A i \in (e.pos + 1)..(e.pos + e.extent) : matchEnd(str, i) = 0
           /\ e.pos + e.extent < Len(str) => matchEnd(str, e.pos + e.extent + 1) > 0
    /\ e.msg = "Not enough arguments" =>
           e.extent = 1 /\ str[e.pos + 1] \in OpChars \cup {"["}
    /\ e.msg = "Exponent must be a number" =>
           e.extent = 1 /\ str[e.pos + 1] = "^"
    /\ e.msg = "Missing operations" =>
           e.pos = 0 /\ e.extent = Len(str)

IsPrefix(s, t) == Len(s) <= Len(t) /\ SubSeq(t, 1, Len(s)) = s

\* The visits of the call (nn, v) so far are those of the call run alone.
AsAlone(nn, v, sofar, returned) ==
    LET alone == visitGLnCrystal(nn, v).visits
    IN  IF returned THEN sofar = alone ELSE IsPrefix(sofar, alone)

CallsAsAlone ==
    /\ (pc \in {"loop", "done"} /\ n >= 1) => AsAlone(n, start, visits, pc = "done")
    /\ second.pc \in {"loop", "done"} =>
           AsAlone(second.n, second.start, second.d.visits, second.pc = "done")
    /\ (pc = "done" /\ second.pc = "done" /\ second.n = n /\ second.start = start) =>
           second.d.visits = visits

C16_CallsShareNoState ==
    /\ []CallsAsAlone
    /\ [][/\ second' # second => UNCHANGED travVars
          /\ travVars' # travVars => second' = second]_vars

\* The second call, entered from inside the first with the same arguments
\* while the first had already visited other vertices, has returned before
\* the first visited another vertex, and has visited more vertices than the
\* first has so far.
C16_Witness ==
    /\ pc = "loop"
    /\ second.pc = "done"
    /\ second.beganAt = Position
    /\ second.n = n /\ second.start = start
    /\ Len(visits) >= 2
    /\ Len(second.d.visits) > Len(visits)

\* ------------------------------------------------------------------------
\* C17: at the head of every iteration of the loop, mutStack and expStack
\* have the same length d and the working vertex is start after the edges
\* f_i, i = expStack[k] - 1, applied at the positions mutStack[k] in order,
\* each the position crystal_f returns for i on the vertex at that depth; a
\* backtrack pops one entry of each stack, restores the letter at the popped
\* position from i + 1 to i, sets the cursor to i + 1 and leaves every other
\* letter unchanged.
\* ------------------------------------------------------------------------
\* The vertex at depth k of the current path.
RECURSIVE PathVertex(_)
PathVertex(k) ==
    IF k = 0 THEN start ELSE Bump(PathVertex(k - 1), mutStack[k], 1)

PathInvariant ==
    pc = "loop" =>
        /\ Len(mutStack) = Len(expStack)
        /\ \A k \in 1..Len(mutStack) :
              /\ mutStack[k] >= 0
              /\ crystal_f(expStack[k] - 1, PathVertex(k - 1)) = mutStack[k]
        /\ mutVert = PathVertex(Len(mutStack))

BacktrackUndoes ==
    (pc = "loop" /\ toExpand = n /\ Len(mutStack) # 0 /\ travVars' # travVars) =>
        LET d == Len(mutStack)
            j == mutStack[d] + 1
            i == expStack[d] - 1
        IN  /\ mutStack' = SubSeq(mutStack, 1, d - 1)
            /\ expStack' = SubSeq(expStack, 1, d - 1)
            /\ toExpand' = i + 1
            /\ mutVert[j] = i + 1
            /\ mutVert'[j] = i
            /\ Len(mutVert') = Len(mutVert)
            /\ \A m \in 1..Len(mutVert) : m # j => mutVert'[m] = mutVert[m]

C17_PathIsStackHistory == []PathInvariant /\ [][BacktrackUndoes]_vars

\* The loop is on a path of at least one edge after a backtrack: a visited
\* vertex is no longer on the path.
C17_Witness ==
    /\ pc = "loop"
    /\ Len(mutStack) >= 1
    /\ Len(visits) >= Len(mutStack) + 2

\* ------------------------------------------------------------------------
\* C18: for a non-empty lattice word start and n >= height(start), the loop
\* of visitGLnCrystal ends after finitely many steps, and when it returns
\* both stacks are empty and the working vertex is start again.
\* ------------------------------------------------------------------------
ReturnedToStart ==
    (pc = "done" /\ start # <<>>) =>
        /\ mutStack = <<>>
        /\ expStack = <<>>
        /\ mutVert = start

C18_LoopEndsAtStart ==
    /\ (pc = "loop" /\ start # <<>>) ~> (pc = "done")
    /\ []ReturnedToStart

\* A traversal from a non-empty start has returned after moving along edges.
C18_Witness ==
    /\ pc = "done"
    /\ start # <<>>
    /\ Len(visits) >= 3
    /\ mutVert = start

\* ------------------------------------------------------------------------
\* C19: the visit order is the depth-first preorder with the operators tried
\* in increasing index.  start is visited first; every other vertex is
\* visited at the step where an edge f_i out of the working vertex u first
\* produces it, u being visited earlier and the end of the current path;
\* from any vertex the edges are attempted in increasing i.
\* ------------------------------------------------------------------------
\* The recursive depth-first search: the vertices visited once the edges
\* f_i, ..., f_(nn-1) out of u have been explored, acc being those visited
\* before.
RECURSIVE Preorder(_, _, _, _)
Preorder(nn, u, i, acc) ==
    IF i >= nn THEN acc
    ELSE IF crystal_f(i, u) < 0 THEN Preorder(nn, u, i + 1, acc)
    ELSE IF Bump(u, crystal_f(i, u), 1) \in Range(acc) THEN Preorder(nn, u, i + 1, acc)
    ELSE Preorder(nn, u, i + 1,
                  Preorder(nn, Bump(u, crystal_f(i, u), 1), 1,
                           Append(acc, Bump(u, crystal_f(i, u), 1))))

VisitsInPreorder ==
    (pc \in {"loop", "done"} /\ n >= 1) =>
        /\ visits[1] = start
        /\ IsPrefix(visits, Preorder(n, start, 1, <<start>>))
        /\ pc = "done" => visits = Preorder(n, start, 1, <<start>>)

\* A step of the loop that attempts the edge f_toExpand out of u = mutVert.
AttemptInOrder ==
    (pc = "loop" /\ n >= 1 /\ toExpand # n /\ travVars' # travVars) =>
        LET u == mutVert
            j == crystal_f(toExpand, u)
            new == j >= 0 /\ Bump(u, IF j >= 0 THEN j ELSE 0, 1) \notin Range(visits)
        IN  /\ u \in Range(visits)
            /\ u = PathVertex(Len(mutStack))
            /\ IF new
               THEN /\ visits' = Append(visits, Bump(u, j, 1))
                    /\ mutVert' = Bump(u, j, 1)
                    /\ mutStack' = Append(mutStack, j)
                    /\ expStack' = Append(expStack, toExpand + 1)
                    /\ toExpand' = 1
               ELSE /\ visits' = visits
                    /\ mutVert' = u
                    /\ mutStack' = mutStack
                    /\ toExpand' = toExpand + 1

C19_VisitsAreDfsPreorder == []VisitsInPreorder /\ [][AttemptInOrder]_vars

\* A traversal has returned that visited a vertex with both edges f_1 and
\* f_2, and the end of its edge f_2 after it.
C19_Witness ==
    /\ pc = "done"
    /\ Len(visits) >= 4
    /\ \E a, b \in 1..Len(visits) :
          /\ a < b
          /\ crystal_f(1, visits[a]) >= 0
          /\ crystal_f(2, visits[a]) >= 0
          /\ visits[b] = Bump(visits[a], crystal_f(2, visits[a]), 1)

\* ------------------------------------------------------------------------
\* C20: visitGLnCrystal never writes to the caller's start array, which has
\* its original contents at every visitor invocation and after the return;
\* expandInGL stores a copy of each visited vertex: no element of its list
\* is the working vertex, and no element changes once appended.
\* ------------------------------------------------------------------------
\* The addresses of the elements of crystal.
Stored == IF expand.crystal = 0 THEN <<>> ELSE heap[expand.crystal].elems

CopiesStored ==
    /\ heap[expand.start].elems = start
    /\ Len(Stored) = Len(visits)
    /\ \A k \in 1..Len(Stored) :
          /\ Stored[k] \notin {expand.start, expand.mutVert, expand.crystal}
          /\ heap[Stored[k]].kind = "nums"
          /\ heap[Stored[k]].elems = visits[k]
          /\ \A m \in 1..Len(Stored) : m # k => Stored[m] # Stored[k]
    /\ expand.mutVert # 0 => expand.mutVert # expand.start

StoredKept ==
    \A k \in 1..Len(Stored) :
        /\ Stored'[k] = Stored[k]
        /\ heap'[Stored[k]] = heap[Stored[k]]

C20_StartAndCopiesUntouched == []CopiesStored /\ [][StoredKept]_vars

\* expandInGL has returned a list of at least three vertices, the last
\* differing from start, with every edge undone on the working vertex.
C20_Witness ==
    /\ pc = "done"
    /\ expand.crystal # 0
    /\ Len(heap[expand.crystal].elems) >= 3
    /\ heap[heap[expand.crystal].elems[3]].elems # start
    /\ heap[expand.mutVert].elems = start

\* ------------------------------------------------------------------------
\* C21: extending from a base partition is checking the concatenated word
\* from scratch.  For a valid partition p and a word v,
\* latticeWordToMaybePartition(p, v) returns r exactly when partitionToHw(p)
\* followed by v is a lattice word with partition r, and null exactly when
\* it is not a lattice word; so tensorPartitions returns the multiset of the
\* earlier version, which concatenates and re-checks each vertex.  The call
\* leaves p unmodified.
\* ------------------------------------------------------------------------
\* The call leaves every object of the heap before it as it was.
HeapKept == \A a \in 1..Len(heap) : heap'[a] = heap[a]

ExtendAgrees ==
    (pc = "idle" /\ call'.fn = "latticeWordToMaybePartition") =>
        LET p == heap[call'.order[1]].elems
            v == heap[call'.order[2]].elems
        IN  /\ pc' = "called"
            /\ HeapKept
            /\ isPartition(p) =>
                  IF isLatticeWord(partitionToHw(p) \o v)
                  THEN /\ call'.res # 0
                       /\ heap'[call'.res].elems = hwToPartition(partitionToHw(p) \o v)
                  ELSE call'.res = 0

TensorAgrees ==
    (pc = "idle" /\ call'.fn = "tensorPartitions") =>
        LET earlier == tensorPartitions_concat(call'.n, heap[call'.order[1]].elems,
                                               heap[call'.order[2]].elems)
        IN  /\ HeapKept
            /\ (pc' = "called") = earlier.ok
            /\ earlier.ok =>
                  SeqToBag(PartsValue(heap', call'.res)) = SeqToBag(earlier.parts)

C21_ExtendIsRecheck == [][ExtendAgrees /\ TensorAgrees]_vars

\* [2, 1] has been extended by the word 1 2 to [3, 2], and is still [2, 1].
C21_Witness ==
    /\ pc = "called"
    /\ call.fn = "latticeWordToMaybePartition"
    /\ heap[call.order[1]].elems = <<2, 1>>
    /\ heap[call.order[2]].elems = <<1, 2>>
    /\ call.res # 0
    /\ heap[call.res].elems = <<3, 2>>

\* ------------------------------------------------------------------------
\* C22: products stay inside GL(n).  For n >= 2 and valid partitions p and q
\* of at most n rows, every partition returned by tensorPartitions(n, p, q)
\* is a valid partition of at most n rows and of size |p| + |q|; so a chain
\* of algebraMul steps over GL(n) on operands whose partitions have at most
\* n rows yields partitions of at most n rows only, and the height assertion
\* of the traversal never fails.
\* ------------------------------------------------------------------------
RECURSIVE Size(_)
Size(p) == IF p = <<>> THEN 0 ELSE Head(p) + Size(Tail(p))

\* Every partition of the list at address lin is valid and has at most nn
\* rows.
RowsWithin(h, lin, nn) ==
    \A k \in 1..Len(h[lin].elems) :
        /\ isPartition(LinValue(h, lin)[k].part)
        /\ Len(LinValue(h, lin)[k].part) <= nn

TensorStaysInside ==
    (pc \in {"called", "crashed"} /\ call.fn = "tensorPartitions") =>
        LET p == heap[call.order[1]].elems
            q == heap[call.order[2]].elems
        IN  (isPartition(p) /\ isPartition(q) /\ Len(p) <= call.n /\ Len(q) <= call.n) =>
                /\ pc = "called"
                /\ \A k \in 1..Len(heap[call.res].elems) :
                      LET r == PartsValue(heap, call.res)[k]
                      IN  /\ isPartition(r)
                          /\ Len(r) <= call.n
                          /\ Size(r) = Size(p) + Size(q)

ProductStaysInside ==
    (pc \in {"called", "crashed"} /\ call.fn \in {"algebraMul", "algebraPow"}
        /\ atype.algebra = "gl") =>
        ((\A lin \in call.args : RowsWithin(heap, lin, atype.n)) =>
            /\ pc = "called"
            /\ RowsWithin(heap, call.res, atype.n))

EvaluateStaysInside ==
    (parse.fn = "evaluate" /\ atype.algebra = "gl") =>
        /\ pc # "crashed"
        /\ (pc = "called" /\ ~parse.ret.error) => RowsWithin(heap, parse.res, atype.n)

C22_ProductsStayInGLn ==
    /\ TensorStaysInside
    /\ ProductStaysInside
    /\ EvaluateStaysInside

\* [1] * [1] * [1] has been evaluated in GL(2) by two algebraMul steps: the
\* product holds [2, 1] twice and no partition of three rows.
C22_Witness ==
    /\ pc = "called"
    /\ parse.fn = "evaluate"
    /\ parse.str = ExChain
    /\ atype = GL(2)
    /\ Len(heap[parse.res].elems) = 2
    /\ \E k \in 1..2 : LinValue(heap, parse.res)[k] = [part |-> <<2, 1>>, mult |-> 2]
====
